---- MODULE Spec2Model ----
(***************************************************************************)
(* Budget progress engine and recurring-expense scheduler of the Paisa     *)
(* expense tracker backend (budgetController.js, expenseController.js,     *)
(* recurringExpenseController.js and their validation models).             *)
(*                                                                         *)
(* Encodings                                                               *)
(*  - money is an integer number of thousandths (85.00 is 85000), so that  *)
(*    toFixed(2) is a real rounding to a multiple of 10;                   *)
(*  - a percentage is an integer number of hundredths of a percent         *)
(*    (85.00% is 8500), the precision toFixed(2) keeps;                    *)
(*  - a calendar date "YYYY-MM-DD" is the integer YYYYMMDD: for zero       *)
(*    padded strings the lexicographic order the code uses is the order    *)
(*    of these integers; Null (0) is a null/absent date;                   *)
(*  - NaN, Infinity and Undefined are sentinels for the JavaScript values.  *)
(*  - the server clock is the variable today (the process runs in UTC,     *)
(*    "Daily at midnight UTC" in server.js);                               *)
(*  - inflight holds the calls that are between two of their awaits: what  *)
(*    they have read so far and where they will resume.                    *)
(***************************************************************************)
EXTENDS Integers, Sequences, FiniteSets, TLC

VARIABLES budgets, expenses, recurring, today, nextId, lastOp, inflight

vars == <<budgets, expenses, recurring, today, nextId, lastOp, inflight>>

(***************************************************************************)
(* Bounds and input domains                                                *)
(***************************************************************************)
MaxExpenses == 2

Null == 0

NaN == -999999999

Undefined == -999999998

Infinity == 999999999

BudgetIds == {1}

TemplateIds == {1}

Users == {"u1", "u2"}

Categories == {"Food", "Rent"}

Range(s) == {s[i] : i \in DOMAIN s}

(***************************************************************************)
(* JavaScript number helpers                                               *)
(***************************************************************************)
IsNum(x) == x # NaN /\ x # Undefined

\* Number.isFinite(x)
IsFinite(x) == IsNum(x) /\ x # Infinity

\* a - b in IEEE arithmetic: undefined or NaN operands give NaN
JsSub(a, b) == IF IsNum(a) /\ IsNum(b) THEN a - b ELSE NaN

JsAdd(a, b) == IF IsNum(a) /\ IsNum(b) THEN a + b ELSE NaN

\* parseFloat(x.toFixed(2)): nearest multiple of 0.01, NaN stays NaN
Round2(x) ==
  IF ~IsNum(x) THEN NaN
  ELSE IF x >= 0 THEN ((x + 5) \div 10) * 10
  ELSE 0 - (((0 - x) + 5) \div 10) * 10

\* n / d rounded to the nearest integer (n >= 0, d > 0)
RoundDiv(n, d) == (2 * n + d) \div (2 * d)

\* parseFloat(((spent / limit) * 100).toFixed(2)) in hundredths of a percent
\* (limit > 0), divided out two decimal digits at a time so that no
\* intermediate value exceeds 32 bits
Percent(spent, limit) ==
  (spent \div limit) * 10000
  + (((spent % limit) * 100) \div limit) * 100
  + RoundDiv((((spent % limit) * 100) % limit) * 100, limit)

RECURSIVE SumAmounts(_, _)
SumAmounts(store, ids) ==
  IF ids = {} THEN 0
  ELSE LET i == CHOOSE x \in ids : TRUE
       IN store[i].amount + SumAmounts(store, ids \ {i})

RECURSIVE SumField(_, _)
\* reduce((sum, cb) => sum + f(cb), 0) over a sequence of numbers
SumField(s, n) ==
  IF n = 0 THEN 0 ELSE JsAdd(SumField(s, n - 1), s[n])

(***************************************************************************)
(* Budget progress engine (budgetController.js)                            *)
(***************************************************************************)
\* the period taken half open, its last day left out
ExpensesInPeriodOpenEnd(store, userId, startDate, endDate) ==
  {i \in DOMAIN store : /\ store[i].userId = userId
                        /\ store[i].date >= startDate
                        /\ store[i].date < endDate}

\* the Firestore query of calculateBudgetProgress: userId == and the
\* closed date range
ExpensesInPeriod(store, userId, startDate, endDate) ==
  {i \in DOMAIN store : /\ store[i].userId = userId
                        /\ store[i].date >= startDate
                        /\ store[i].date <= endDate}

\* categorySpending[category] || 0
CategorySpending(store, ids, category) ==
  SumAmounts(store, {i \in ids : store[i].category = category})

\* remaining clamped at zero
UpdatedCategoryBudgetClamped(catBudget, spent) ==
  [catBudget EXCEPT
     !.spent = Round2(spent),
     !.remaining = IF IsNum(catBudget.limit) /\ catBudget.limit < spent
                   THEN 0 ELSE Round2(JsSub(catBudget.limit, spent)),
     !.percentage = IF IsNum(catBudget.limit) /\ catBudget.limit > 0
                    THEN Percent(spent, catBudget.limit) ELSE 0]

\* the percentage divided out whatever the limit: 0 / 0 is NaN and a
\* positive amount over 0 is Infinity
UpdatedCategoryBudgetUnguarded(catBudget, spent) ==
  [catBudget EXCEPT
     !.spent = Round2(spent),
     !.remaining = Round2(JsSub(catBudget.limit, spent)),
     !.percentage = IF ~IsNum(catBudget.limit) THEN 0
                    ELSE IF catBudget.limit > 0
                    THEN Percent(spent, catBudget.limit)
                    ELSE IF spent = 0 THEN NaN ELSE Infinity]

UpdatedCategoryBudget(catBudget, spent) ==
  [catBudget EXCEPT
     !.spent = Round2(spent),
     !.remaining = Round2(JsSub(catBudget.limit, spent)),
     !.percentage = IF IsNum(catBudget.limit) /\ catBudget.limit > 0
                    THEN Percent(spent, catBudget.limit) ELSE 0]

\* updatedCategoryBudgets.find(cb => cb.category === alert.category)
FindCategoryBudget(cbs, category) ==
  LET hits == {i \in DOMAIN cbs : cbs[i].category = category}
  IN IF hits = {} THEN 0 ELSE CHOOSE i \in hits : \A j \in hits : i <= j

\* the comparison without the equality
ShouldTriggerStrict(cbs, alert) ==
  LET k == FindCategoryBudget(cbs, alert.category)
  IN k # 0 /\ cbs[k].percentage > alert.threshold

\* catBudget && catBudget.percentage >= alert.threshold; the undefined of a
\* missing category is falsy and reported by AlertUndefined
ShouldTrigger(cbs, alert) ==
  LET k == FindCategoryBudget(cbs, alert.category)
  IN k # 0 /\ cbs[k].percentage >= alert.threshold

\* the time stamp written only while there is none yet
UpdatedAlertStampedOnce(cbs, alert, now) ==
  LET shouldTrigger == ShouldTrigger(cbs, alert)
  IN [alert EXCEPT
        !.triggered = shouldTrigger,
        !.triggeredAt = IF shouldTrigger /\ alert.triggeredAt = Null
                        THEN now ELSE alert.triggeredAt]

\* the alert as a one-way latch
UpdatedAlertLatched(cbs, alert, now) ==
  LET shouldTrigger == ShouldTrigger(cbs, alert)
  IN [alert EXCEPT
        !.triggered = shouldTrigger \/ alert.triggered,
        !.triggeredAt = IF shouldTrigger /\ ~alert.triggered
                        THEN now ELSE alert.triggeredAt]

UpdatedAlert(cbs, alert, now) ==
  LET shouldTrigger == ShouldTrigger(cbs, alert)
  IN [alert EXCEPT
        !.triggered = shouldTrigger,
        !.triggeredAt = IF shouldTrigger /\ ~alert.triggered
                        THEN now ELSE alert.triggeredAt]

\* the totals taken over every expense of the period, budgeted or not
calculateBudgetProgressAllSpending(budget, userId, store, now) ==
  LET ids == ExpensesInPeriod(store, userId, budget.period.startDate,
                              budget.period.endDate)
      cbs == [i \in DOMAIN budget.categoryBudgets |->
                UpdatedCategoryBudget(budget.categoryBudgets[i],
                   CategorySpending(store, ids,
                                    budget.categoryBudgets[i].category))]
      totalSpent == Round2(SumAmounts(store, ids))
  IN [budget EXCEPT
        !.categoryBudgets = cbs,
        !.totalSpent = Round2(totalSpent),
        !.totalRemaining = Round2(JsSub(budget.totalLimit, totalSpent)),
        !.alerts = [i \in DOMAIN budget.alerts |->
                      UpdatedAlert(cbs, budget.alerts[i], now)]]

calculateBudgetProgress(budget, userId, store, now) ==
  LET ids == ExpensesInPeriod(store, userId, budget.period.startDate,
                              budget.period.endDate)
      cbs == [i \in DOMAIN budget.categoryBudgets |->
                UpdatedCategoryBudget(budget.categoryBudgets[i],
                   CategorySpending(store, ids,
                                    budget.categoryBudgets[i].category))]
      totalSpent == SumField([i \in DOMAIN cbs |-> cbs[i].spent], Len(cbs))
  IN [budget EXCEPT
        !.categoryBudgets = cbs,
        !.totalSpent = Round2(totalSpent),
        !.totalRemaining = Round2(JsSub(budget.totalLimit, totalSpent)),
        !.alerts = [i \in DOMAIN budget.alerts |->
                      UpdatedAlert(cbs, budget.alerts[i], now)]]

\* an alert on a category without a category budget gets triggered:
\* undefined, which Firestore refuses to write (add, update and batch.update
\* throw on an undefined field value)
AlertUndefined(budget) ==
  \E i \in DOMAIN budget.alerts :
     FindCategoryBudget(budget.categoryBudgets, budget.alerts[i].category) = 0

(***************************************************************************)
(* Request bodies the handlers are exercised with                          *)
(***************************************************************************)
Jan == [startDate |-> 20250101, endDate |-> 20250131]

Feb == [startDate |-> 20250201, endDate |-> 20250228]

Reversed == [startDate |-> 20250131, endDate |-> 20250101]

\* a categoryBudgets entry of a request: missing fields are Undefined
CB(category, limit, spent) ==
  [category |-> category, limit |-> limit, spent |-> spent,
   remaining |-> Undefined, percentage |-> Undefined]

AL(category, threshold) ==
  [category |-> category, threshold |-> threshold,
   triggered |-> FALSE, triggeredAt |-> Null]

\* POST /api/budgets bodies
CreateBudgetBodies ==
  { [period |-> Jan, categoryBudgets |-> <<CB("Food", 100000, Undefined)>>,
     alerts |-> <<AL("Food", 8000)>>, isActive |-> TRUE],
    [period |-> Jan, categoryBudgets |-> <<CB("Food", 0, Undefined),
                                           CB("Rent", 0, Undefined)>>,
     alerts |-> <<AL("Rent", 0)>>, isActive |-> FALSE] }

\* POST /api/budgets bodies that are refused: an alert on a category without
\* a budget, a reversed period, a negative limit, a threshold above 100
BadBudgetBodies ==
  { [period |-> Jan, categoryBudgets |-> <<CB("Food", 100000, Undefined)>>,
     alerts |-> <<AL("Rent", 5000)>>, isActive |-> TRUE],
    [period |-> Reversed, categoryBudgets |-> <<CB("Food", 100000, Undefined)>>,
     alerts |-> <<>>, isActive |-> TRUE],
    [period |-> Jan, categoryBudgets |-> <<CB("Food", 0 - 1000, Undefined)>>,
     alerts |-> <<>>, isActive |-> TRUE],
    [period |-> Jan, categoryBudgets |-> <<CB("Food", 100000, Undefined)>>,
     alerts |-> <<AL("Food", 15000)>>, isActive |-> TRUE] }

\* PUT /api/budgets/:id bodies: has is the set of fields the body carries
UpdateBudgetBodies ==
  LET none == [has |-> {}, categoryBudgets |-> <<>>, totalLimit |-> 0,
               period |-> Jan, alerts |-> <<>>, isActive |-> TRUE,
               totalSpent |-> 0]
  IN { [none EXCEPT !.has = {"categoryBudgets"},
          !.categoryBudgets = <<CB("Food", 50000, Undefined)>>],
       [none EXCEPT !.has = {"categoryBudgets"},
          !.categoryBudgets = <<CB("Food", 0, 5000)>>],
       [none EXCEPT !.has = {"categoryBudgets"},
          !.categoryBudgets = <<CB("Rent", Undefined, Undefined)>>],
       [none EXCEPT !.has = {"categoryBudgets"},
          !.categoryBudgets = <<CB("Food", 0 - 1000, Undefined)>>],
       [none EXCEPT !.has = {"totalLimit"}, !.totalLimit = 999000],
       [none EXCEPT !.has = {"totalSpent"}, !.totalSpent = 1000],
       [none EXCEPT !.has = {"period"}, !.period = Reversed],
       [none EXCEPT !.has = {"isActive"}, !.isActive = FALSE],
       [none EXCEPT !.has = {"alerts"}, !.alerts = <<AL("Food", 15000)>>] }

\* POST /api/budgets/:id/alerts bodies (the last one is out of range)
ConfigureAlertsBodies ==
  { <<AL("Food", 8000)>>, <<>>, <<AL("Food", 15000)>> }

\* POST /api/expenses bodies; the last one (negative amount) is invalid
CreateExpenseBodies ==
  { [amount |-> 85000, category |-> "Food", date |-> 20250101],
    [amount |-> 2504, category |-> "Food", date |-> 20250131],
    [amount |-> 2500, category |-> "Rent", date |-> 20250115],
    [amount |-> 0 - 1000, category |-> "Food", date |-> 20250101] }

\* PUT /api/expenses/:id bodies; the last one is invalid
UpdateExpenseBodies ==
  LET none == [has |-> {}, amount |-> 0, category |-> "Food", date |-> Null]
  IN { [none EXCEPT !.has = {"amount", "date"}, !.amount = 2500,
                        !.date = 20250201],
       [none EXCEPT !.has = {"amount"}, !.amount = 0 - 1000] }

Days == {20250115, 20250201, 20250301}

(***************************************************************************)
(* Validation and sanitization (budgetModel.js, expenseModel.js)           *)
(***************************************************************************)
MaxAmount == 1000000000

validateBudget(data) ==
  /\ data.period.endDate > data.period.startDate
  /\ Len(data.categoryBudgets) > 0
  /\ \A i \in DOMAIN data.categoryBudgets :
        /\ data.categoryBudgets[i].limit # Undefined
        /\ data.categoryBudgets[i].limit >= 0
        /\ data.categoryBudgets[i].limit <= MaxAmount
  /\ \A i \in DOMAIN data.alerts :
        /\ data.alerts[i].threshold >= 0
        /\ data.alerts[i].threshold <= 10000

sanitizeBudget(data) ==
  LET limits == [i \in DOMAIN data.categoryBudgets |->
                   data.categoryBudgets[i].limit]
  IN [period |-> data.period,
      categoryBudgets |->
        [i \in DOMAIN data.categoryBudgets |->
           [category |-> data.categoryBudgets[i].category,
            limit |-> data.categoryBudgets[i].limit,
            spent |-> 0,
            remaining |-> data.categoryBudgets[i].limit,
            percentage |-> 0]],
      totalLimit |-> SumField(limits, Len(limits)),
      totalSpent |-> 0,
      totalRemaining |-> SumField(limits, Len(limits)),
      alerts |-> [i \in DOMAIN data.alerts |->
                    [category |-> data.alerts[i].category,
                     threshold |-> data.alerts[i].threshold,
                     triggered |-> FALSE,
                     triggeredAt |-> Null]],
      isActive |-> data.isActive]

validatePartialBudget(data) ==
  "categoryBudgets" \in data.has =>
     /\ Len(data.categoryBudgets) > 0
     /\ \A i \in DOMAIN data.categoryBudgets :
           data.categoryBudgets[i].limit # Undefined =>
              data.categoryBudgets[i].limit >= 0

validateExpense(data) == data.amount >= 0 /\ data.amount <= MaxAmount

validatePartialExpense(data) ==
  "amount" \in data.has => (data.amount >= 0 /\ data.amount <= MaxAmount)

\* parseFloat(cb.limit || cb.spent || 0) of updateBudget
LimitOrSpent(cb) ==
  IF cb.limit # Undefined /\ cb.limit # 0 THEN cb.limit
  ELSE IF cb.spent # Undefined /\ cb.spent # 0 THEN cb.spent
  ELSE 0

(***************************************************************************)
(* State                                                                   *)
(***************************************************************************)
NoBudget ==
  [userId |-> "", period |-> [startDate |-> Null, endDate |-> Null],
   categoryBudgets |-> <<>>, totalLimit |-> 0, totalSpent |-> 0,
   totalRemaining |-> 0, alerts |-> <<>>, isActive |-> FALSE]

\* what the last request is observed to have done: the handler that
\* succeeded with its HTTP status (0 for the helper and the cron job), the id
\* of the document it served and the progress a read returned; a refused
\* request leaves only its status; generated is the count the cron job
\* returns
Done(op, status, id, resp) ==
  IF status >= 400
  THEN [op |-> "rejected", status |-> status, id |-> 0, resp |-> NoBudget,
        generated |-> 0]
  ELSE [op |-> op, status |-> status, id |-> id, resp |-> resp,
        generated |-> 0]

Init ==
  /\ budgets = <<>>
  /\ expenses = <<>>
  /\ recurring = <<>>
  /\ today = 20250115
  /\ nextId = [b |-> 1, e |-> 1, t |-> 1]
  /\ lastOp = Done("init", 0, 0, NoBudget)
  /\ inflight = <<>>

(***************************************************************************)
(* Budget handlers (budgetController.js)                                   *)
(***************************************************************************)
createBudget(user, body) ==
  /\ nextId.b \in BudgetIds
  /\ UNCHANGED <<expenses, recurring, today, inflight>>
  /\ IF ~validateBudget(body)
     THEN /\ lastOp' = Done("createBudget", 400, 0, NoBudget)
          /\ UNCHANGED <<budgets, nextId>>
     ELSE LET budgetData == [userId |-> user] @@ sanitizeBudget(body)
              budgetWithProgress ==
                calculateBudgetProgress(budgetData, user, expenses, today)
          IN IF AlertUndefined(budgetWithProgress)
             THEN /\ lastOp' = Done("createBudget", 500, 0, NoBudget)
                  /\ UNCHANGED <<budgets, nextId>>
             ELSE /\ budgets' = (nextId.b :> budgetWithProgress) @@ budgets
                  /\ nextId' = [nextId EXCEPT !.b = @ + 1]
                  /\ lastOp' = Done("createBudget", 201, nextId.b, NoBudget)

\* the shared prologue of the by-id handlers: 404 when the document does
\* not exist, 403 when it belongs to another user, else 0
Access(store, id, user) ==
  IF id \notin DOMAIN store THEN 404
  ELSE IF store[id].userId # user THEN 403
  ELSE 0

\* parseFloat(((totalSpent / totalLimit) * 100).toFixed(2)) of the read
\* response: the quotient is taken whatever totalLimit is, so 0 / 0 is NaN
\* and a positive amount over 0 is Infinity (spending is never negative)
OverallPercentage(totalSpent, totalLimit) ==
  IF ~IsNum(totalSpent) \/ ~IsNum(totalLimit) THEN NaN
  ELSE IF totalLimit = 0 THEN (IF totalSpent = 0 THEN NaN ELSE Infinity)
  ELSE IF totalLimit > 0 THEN Percent(totalSpent, totalLimit)
  ELSE 0 - Percent(totalSpent, 0 - totalLimit)

\* the response carries the computed progress and overallPercentage
getBudgetProgress(user, id) ==
  /\ UNCHANGED <<budgets, expenses, recurring, today, nextId, inflight>>
  /\ IF Access(budgets, id, user) # 0
     THEN lastOp' = Done("getBudgetProgress", Access(budgets, id, user), id, NoBudget)
     ELSE LET budgetWithProgress ==
                calculateBudgetProgress(budgets[id], user, expenses, today)
          IN lastOp' = Done("getBudgetProgress", 200, id,
                            [overallPercentage |->
                               OverallPercentage(
                                 budgetWithProgress.totalSpent,
                                 budgetWithProgress.totalLimit)]
                            @@ budgetWithProgress)

updateBudget(user, id, body) ==
  /\ UNCHANGED <<expenses, recurring, today, nextId, inflight>>
  /\ IF ~validatePartialBudget(body)
     THEN /\ lastOp' = Done("updateBudget", 400, id, NoBudget)
          /\ UNCHANGED budgets
     ELSE IF Access(budgets, id, user) # 0
     THEN /\ lastOp' = Done("updateBudget", Access(budgets, id, user), id, NoBudget)
          /\ UNCHANGED budgets
     ELSE LET old == budgets[id]
              limits == [i \in DOMAIN body.categoryBudgets |->
                           LimitOrSpent(body.categoryBudgets[i])]
              updated ==
                [old EXCEPT
                   !.categoryBudgets = IF "categoryBudgets" \in body.has
                                       THEN body.categoryBudgets ELSE @,
                   !.totalLimit = IF "categoryBudgets" \in body.has
                                  THEN SumField(limits, Len(limits))
                                  ELSE IF "totalLimit" \in body.has
                                  THEN body.totalLimit ELSE @,
                   !.period = IF "period" \in body.has THEN body.period ELSE @,
                   !.alerts = IF "alerts" \in body.has THEN body.alerts ELSE @,
                   !.isActive = IF "isActive" \in body.has
                                THEN body.isActive ELSE @]
          IN /\ budgets' = [budgets EXCEPT ![id] = updated]
             /\ lastOp' = Done("updateBudget", 200, id, NoBudget)

deleteBudget(user, id) ==
  /\ UNCHANGED <<expenses, recurring, today, nextId, inflight>>
  /\ IF Access(budgets, id, user) # 0
     THEN /\ lastOp' = Done("deleteBudget", Access(budgets, id, user), id, NoBudget)
          /\ UNCHANGED budgets
     ELSE /\ budgets' = [i \in DOMAIN budgets \ {id} |-> budgets[i]]
          /\ lastOp' = Done("deleteBudget", 200, id, NoBudget)

configureAlerts(user, id, alerts) ==
  /\ UNCHANGED <<expenses, recurring, today, nextId, inflight>>
  /\ IF \E i \in DOMAIN alerts :
          alerts[i].threshold < 0 \/ alerts[i].threshold > 10000
     THEN /\ lastOp' = Done("configureAlerts", 400, id, NoBudget)
          /\ UNCHANGED budgets
     ELSE IF Access(budgets, id, user) # 0
     THEN /\ lastOp' = Done("configureAlerts", Access(budgets, id, user), id, NoBudget)
          /\ UNCHANGED budgets
     ELSE LET updated ==
                [budgets[id] EXCEPT
                   !.alerts = [i \in DOMAIN alerts |->
                                 [category |-> alerts[i].category,
                                  threshold |-> alerts[i].threshold,
                                  triggered |-> FALSE,
                                  triggeredAt |-> Null]]]
          IN /\ budgets' = [budgets EXCEPT ![id] = updated]
             /\ lastOp' = Done("configureAlerts", 200, id, NoBudget)

\* the active budgets of the user whose period contains the expense date
AffectedBudgets(userId, expenseDate) ==
  {b \in DOMAIN budgets :
     /\ budgets[b].userId = userId
     /\ budgets[b].isActive
     /\ budgets[b].period.startDate <= expenseDate
     /\ budgets[b].period.endDate >= expenseDate}

\* the exported helper: one batch over every affected budget, any error
\* (batch.update refusing an undefined field, the commit) logged and dropped
updateAffectedBudgets(userId, expenseDate) ==
  LET affected == AffectedBudgets(userId, expenseDate)
      progress == [b \in affected |->
                     calculateBudgetProgress(budgets[b], userId, expenses,
                                             today)]
  IN /\ UNCHANGED <<expenses, recurring, today, nextId, inflight>>
     /\ lastOp' = Done("updateAffectedBudgets", 0, 0, NoBudget)
     /\ IF \E b \in affected : AlertUndefined(progress[b])
        THEN UNCHANGED budgets
        ELSE budgets' =
               [b \in DOMAIN budgets |->
                  IF b \in affected
                  THEN [budgets[b] EXCEPT
                          !.categoryBudgets = progress[b].categoryBudgets,
                          !.totalSpent = progress[b].totalSpent,
                          !.totalRemaining = progress[b].totalRemaining,
                          !.alerts = progress[b].alerts]
                  ELSE budgets[b]]

\* the calls of the helper that may be in flight at the same time
Requests == {1, 2}

\* the helper up to its last await: the query of the active budgets and, for
\* each affected one, calculateBudgetProgress over the expenses as they are
\* now, queued in the batch; seen is the expense set these reads returned.
\* With nothing to update, or batch.update throwing, the call ends here.
updateAffectedBudgetsRead(r, userId, expenseDate) ==
  LET affected == AffectedBudgets(userId, expenseDate)
      progress == [b \in affected |->
                     calculateBudgetProgress(budgets[b], userId, expenses,
                                             today)]
      ends == affected = {} \/ \E b \in affected : AlertUndefined(progress[b])
  IN /\ r \notin DOMAIN inflight
     /\ UNCHANGED <<budgets, expenses, recurring, today, nextId>>
     /\ inflight' = (r :> [op |-> "updateAffectedBudgets",
                           pc |-> IF ends THEN "done" ELSE "commit",
                           userId |-> userId,
                           seen |-> DOMAIN expenses,
                           batch |-> progress]) @@ inflight
     /\ lastOp' = IF ends THEN Done("updateAffectedBudgets", 0, 0, NoBudget)
                  ELSE lastOp

\* the commit inside a transaction that reads the expenses again
updateAffectedBudgetsCommitFresh(r) ==
  /\ r \in DOMAIN inflight
  /\ inflight[r].op = "updateAffectedBudgets"
  /\ inflight[r].pc = "commit"
  /\ UNCHANGED <<expenses, recurring, today, nextId>>
  /\ inflight' = [inflight EXCEPT ![r].pc = "done"]
  /\ lastOp' = Done("updateAffectedBudgets", 0, 0, NoBudget)
  /\ IF \E b \in DOMAIN inflight[r].batch : b \notin DOMAIN budgets
     THEN UNCHANGED budgets
     ELSE budgets' =
            [b \in DOMAIN budgets |->
               IF b \in DOMAIN inflight[r].batch
               THEN LET fresh == calculateBudgetProgress(budgets[b],
                                    inflight[r].userId, expenses, today)
                    IN [budgets[b] EXCEPT
                          !.categoryBudgets = fresh.categoryBudgets,
                          !.totalSpent = fresh.totalSpent,
                          !.totalRemaining = fresh.totalRemaining,
                          !.alerts = fresh.alerts]
               ELSE budgets[b]]

\* await batch.commit(): the four fields computed at the read are written
\* over whatever the documents hold now; a budget deleted in between fails
\* the whole batch, which the catch logs and drops
updateAffectedBudgetsCommit(r) ==
  /\ r \in DOMAIN inflight
  /\ inflight[r].op = "updateAffectedBudgets"
  /\ inflight[r].pc = "commit"
  /\ UNCHANGED <<expenses, recurring, today, nextId>>
  /\ inflight' = [inflight EXCEPT ![r].pc = "done"]
  /\ lastOp' = Done("updateAffectedBudgets", 0, 0, NoBudget)
  /\ IF \E b \in DOMAIN inflight[r].batch : b \notin DOMAIN budgets
     THEN UNCHANGED budgets
     ELSE budgets' =
            [b \in DOMAIN budgets |->
               IF b \in DOMAIN inflight[r].batch
               THEN [budgets[b] EXCEPT
                       !.categoryBudgets =
                          inflight[r].batch[b].categoryBudgets,
                       !.totalSpent = inflight[r].batch[b].totalSpent,
                       !.totalRemaining = inflight[r].batch[b].totalRemaining,
                       !.alerts = inflight[r].batch[b].alerts]
               ELSE budgets[b]]

(***************************************************************************)
(* Expense handlers (expenseController.js)                                 *)
(***************************************************************************)
createExpense(user, body) ==
  /\ nextId.e <= MaxExpenses
  /\ UNCHANGED <<budgets, recurring, today, inflight>>
  /\ IF ~validateExpense(body)
     THEN /\ lastOp' = Done("createExpense", 400, 0, NoBudget)
          /\ UNCHANGED <<expenses, nextId>>
     ELSE /\ expenses' =
               (nextId.e :> [userId |-> user, amount |-> body.amount,
                             category |-> body.category,
                             description |-> "manual", date |-> body.date,
                             aiSuggested |-> FALSE,
                             recurringExpenseId |-> 0]) @@ expenses
          /\ nextId' = [nextId EXCEPT !.e = @ + 1]
          /\ lastOp' = Done("createExpense", 201, nextId.e, NoBudget)

updateExpense(user, id, body) ==
  /\ UNCHANGED <<budgets, recurring, today, nextId, inflight>>
  /\ IF ~validatePartialExpense(body)
     THEN /\ lastOp' = Done("updateExpense", 400, id, NoBudget)
          /\ UNCHANGED expenses
     ELSE IF Access(expenses, id, user) # 0
     THEN /\ lastOp' = Done("updateExpense", Access(expenses, id, user), id, NoBudget)
          /\ UNCHANGED expenses
     ELSE LET updated ==
                [expenses[id] EXCEPT
                   !.amount = IF "amount" \in body.has THEN body.amount ELSE @,
                   !.category = IF "category" \in body.has
                                THEN body.category ELSE @,
                   !.date = IF "date" \in body.has THEN body.date ELSE @]
          IN /\ expenses' = [expenses EXCEPT ![id] = updated]
             /\ lastOp' = Done("updateExpense", 200, id, NoBudget)

deleteExpense(user, id) ==
  /\ UNCHANGED <<budgets, recurring, today, nextId, inflight>>
  /\ IF Access(expenses, id, user) # 0
     THEN /\ lastOp' = Done("deleteExpense", Access(expenses, id, user), id, NoBudget)
          /\ UNCHANGED expenses
     ELSE /\ expenses' = [i \in DOMAIN expenses \ {id} |-> expenses[i]]
          /\ lastOp' = Done("deleteExpense", 200, id, NoBudget)

\* the clock moves on
AdvanceDay ==
  /\ \E d \in Days : d > today /\ today' = d
  /\ UNCHANGED <<budgets, expenses, recurring, nextId, lastOp, inflight>>

ExpenseIds == 1..MaxExpenses

NextBudget ==
  \/ \E body \in CreateBudgetBodies \cup BadBudgetBodies :
        createBudget("u1", body)
  \/ \E u \in Users, id \in BudgetIds : getBudgetProgress(u, id)
  \/ \E u \in Users, id \in BudgetIds, alerts \in ConfigureAlertsBodies :
        configureAlerts(u, id, alerts)
  \/ \E u \in Users, d \in {20250131, 20250201} : updateAffectedBudgets(u, d)
  \/ \E body \in CreateExpenseBodies : createExpense("u1", body)
  \/ createExpense("u2", [amount |-> 85000, category |-> "Food",
                          date |-> 20250101])
  \/ \E id \in ExpenseIds, body \in UpdateExpenseBodies :
        updateExpense("u1", id, body)
  \/ \E u \in Users, id \in ExpenseIds : deleteExpense(u, id)

SpecBudget == Init /\ [][NextBudget]_vars

\* budget editing: the budget handlers over a small expense set
NextEdit ==
  \/ \E body \in CreateBudgetBodies \cup BadBudgetBodies :
        createBudget("u1", body)
  \/ \E u \in Users, id \in BudgetIds, body \in UpdateBudgetBodies :
        updateBudget(u, id, body)
  \/ \E u \in Users, id \in BudgetIds : deleteBudget(u, id)
  \/ \E u \in Users, id \in BudgetIds, alerts \in ConfigureAlertsBodies :
        configureAlerts(u, id, alerts)
  \/ \E u \in Users, id \in BudgetIds : getBudgetProgress(u, id)
  \/ createExpense("u1", [amount |-> 85000, category |-> "Food",
                          date |-> 20250101])
  \/ updateAffectedBudgets("u1", 20250101)

SpecEdit == Init /\ [][NextEdit]_vars

\* one budget with an alert, expenses that come and go, persisted recomputes
\* and a clock that moves between them
NextStamp ==
  \/ \E body \in {x \in CreateBudgetBodies : x.isActive} :
        createBudget("u1", body)
  \/ createExpense("u1", [amount |-> 85000, category |-> "Food",
                          date |-> 20250101])
  \/ \E id \in ExpenseIds : deleteExpense("u1", id)
  \/ updateAffectedBudgets("u1", 20250101)
  \/ \E id \in BudgetIds : configureAlerts("u1", id, <<AL("Food", 8000)>>)
  \/ AdvanceDay

SpecStamp == Init /\ [][NextStamp]_vars

\* expense writes of one user inside a budget period, each call of the
\* reconciliation helper running as two steps that other requests may come
\* between
NextRace ==
  \/ \E body \in {x \in CreateBudgetBodies : x.isActive} :
        createBudget("u1", body)
  \/ \E body \in {x \in CreateExpenseBodies : x.category = "Food"} :
        createExpense("u1", body)
  \/ \E r \in Requests, d \in {20250101, 20250201} :
        updateAffectedBudgetsRead(r, "u1", d)
  \/ \E r \in Requests : updateAffectedBudgetsCommit(r)
  \/ \E id \in BudgetIds : getBudgetProgress("u1", id)

SpecRace == Init /\ [][NextRace]_vars

(***************************************************************************)
(* Recurring expense scheduler (recurringExpenseController.js,             *)
(* recurringExpenseModel.js)                                               *)
(***************************************************************************)
Year(d) == d \div 10000

Month(d) == (d \div 100) % 100

Day(d) == d % 100

IsLeap(y) == (y % 4 = 0 /\ y % 100 # 0) \/ y % 400 = 0

DaysInMonth(y, m) ==
  IF m = 2 THEN (IF IsLeap(y) THEN 29 ELSE 28)
  ELSE IF m \in {4, 6, 9, 11} THEN 30 ELSE 31

RECURSIVE MakeDateNoYearCarry(_, _, _)
\* month 13 taken as January of the same year
MakeDateNoYearCarry(y, m, d) ==
  IF m > 12 THEN MakeDateNoYearCarry(y, m - 12, d)
  ELSE IF d > DaysInMonth(y, m)
  THEN MakeDateNoYearCarry(y, m + 1, d - DaysInMonth(y, m))
  ELSE y * 10000 + m * 100 + d

RECURSIVE MakeDateClamped(_, _, _)
\* a day of the month that the month lacks held at the last day of that
\* month instead of rolling over
MakeDateClamped(y, m, d) ==
  IF m > 12 THEN MakeDateClamped(y + 1, m - 12, d)
  ELSE IF d > DaysInMonth(y, m)
  THEN IF d <= 31
       THEN y * 10000 + m * 100 + DaysInMonth(y, m)
       ELSE MakeDateClamped(y, m + 1, d - DaysInMonth(y, m))
  ELSE y * 10000 + m * 100 + d

RECURSIVE MakeDate(_, _, _)
\* the calendar date of year y, month m (1..13) and day d >= 1 as the Date
\* setters resolve it: a day past the end of the month rolls into the
\* following months
MakeDate(y, m, d) ==
  IF m > 12 THEN MakeDate(y + 1, m - 12, d)
  ELSE IF d > DaysInMonth(y, m) THEN MakeDate(y, m + 1, d - DaysInMonth(y, m))
  ELSE y * 10000 + m * 100 + d

ValidFrequencies == {"daily", "weekly", "biweekly", "monthly", "yearly"}

\* the value standing for "threw" where a date is expected
Thrown == 0 - 1

calculateNextOccurrence(currentDate, frequency) ==
  LET y == Year(currentDate)
      m == Month(currentDate)
      d == Day(currentDate)
  IN CASE frequency = "daily" -> MakeDate(y, m, d + 1)
       [] frequency = "weekly" -> MakeDate(y, m, d + 7)
       [] frequency = "biweekly" -> MakeDate(y, m, d + 14)
       [] frequency = "monthly" -> MakeDate(y, m + 1, d)
       [] frequency = "yearly" -> MakeDate(y + 1, m, d)
       [] OTHER -> Thrown

validateRecurringExpense(data) ==
  /\ data.amount >= 0
  /\ data.amount <= MaxAmount
  /\ data.frequency \in ValidFrequencies
  /\ data.endDate # Null => data.endDate > data.startDate

validatePartialRecurringExpense(data) ==
  /\ "amount" \in data.has => (data.amount >= 0 /\ data.amount <= MaxAmount)
  /\ "frequency" \in data.has => data.frequency \in ValidFrequencies

createRecurringExpense(user, body) ==
  /\ nextId.t \in TemplateIds
  /\ UNCHANGED <<budgets, expenses, today, inflight>>
  /\ IF ~validateRecurringExpense(body)
     THEN /\ lastOp' = Done("createRecurringExpense", 400, 0, NoBudget)
          /\ UNCHANGED <<recurring, nextId>>
     ELSE /\ recurring' =
               (nextId.t :>
                  [userId |-> user,
                   amount |-> body.amount,
                   category |-> body.category,
                   description |-> body.description,
                   frequency |-> body.frequency,
                   startDate |-> body.startDate,
                   endDate |-> body.endDate,
                   autoGenerate |-> body.autoGenerate,
                   isActive |-> body.isActive,
                   nextOccurrence |->
                     calculateNextOccurrence(body.startDate, body.frequency),
                   lastGenerated |-> Null]) @@ recurring
          /\ nextId' = [nextId EXCEPT !.t = @ + 1]
          /\ lastOp' = Done("createRecurringExpense", 201, nextId.t, NoBudget)

updateRecurringExpense(user, id, body) ==
  /\ UNCHANGED <<budgets, expenses, today, nextId, inflight>>
  /\ IF ~validatePartialRecurringExpense(body)
     THEN /\ lastOp' = Done("updateRecurringExpense", 400, id, NoBudget)
          /\ UNCHANGED recurring
     ELSE IF Access(recurring, id, user) # 0
     THEN /\ lastOp' = Done("updateRecurringExpense",
                            Access(recurring, id, user), id, NoBudget)
          /\ UNCHANGED recurring
     ELSE LET existingData == recurring[id]
              recompute == "frequency" \in body.has \/ "startDate" \in body.has
              newFrequency == IF "frequency" \in body.has
                              THEN body.frequency ELSE existingData.frequency
              baseDate == IF existingData.lastGenerated # Null
                          THEN existingData.lastGenerated
                          ELSE existingData.startDate
              updated ==
                [existingData EXCEPT
                   !.amount = IF "amount" \in body.has THEN body.amount ELSE @,
                   !.frequency = IF "frequency" \in body.has
                                 THEN body.frequency ELSE @,
                   !.startDate = IF "startDate" \in body.has
                                 THEN body.startDate ELSE @,
                   !.endDate = IF "endDate" \in body.has
                               THEN body.endDate ELSE @,
                   !.isActive = IF "isActive" \in body.has
                                THEN body.isActive ELSE @,
                   !.autoGenerate = IF "autoGenerate" \in body.has
                                    THEN body.autoGenerate ELSE @,
                   !.nextOccurrence =
                      IF recompute
                      THEN calculateNextOccurrence(baseDate, newFrequency)
                      ELSE IF "nextOccurrence" \in body.has
                      THEN body.nextOccurrence ELSE @]
          IN IF recompute
                /\ calculateNextOccurrence(baseDate, newFrequency) = Thrown
             THEN /\ lastOp' = Done("updateRecurringExpense", 500, id, NoBudget)
                  /\ UNCHANGED recurring
             ELSE /\ recurring' = [recurring EXCEPT ![id] = updated]
                  /\ lastOp' = Done("updateRecurringExpense", 200, id, NoBudget)

deleteRecurringExpense(user, id) ==
  /\ UNCHANGED <<budgets, expenses, today, nextId, inflight>>
  /\ IF Access(recurring, id, user) # 0
     THEN /\ lastOp' = Done("deleteRecurringExpense",
                            Access(recurring, id, user), id, NoBudget)
          /\ UNCHANGED recurring
     ELSE /\ recurring' = [i \in DOMAIN recurring \ {id} |-> recurring[i]]
          /\ lastOp' = Done("deleteRecurringExpense", 200, id, NoBudget)

\* the expense dated at the day of the call instead of the due date
ExpenseFromTemplateDatedToday(data, templateId) ==
  [userId |-> data.userId,
   amount |-> data.amount,
   category |-> data.category,
   description |-> data.description,
   date |-> today,
   aiSuggested |-> FALSE,
   recurringExpenseId |-> templateId]

\* the expense a template materializes
ExpenseFromTemplate(data, templateId) ==
  [userId |-> data.userId,
   amount |-> data.amount,
   category |-> data.category,
   description |-> data.description,
   date |-> data.nextOccurrence,
   aiSuggested |-> FALSE,
   recurringExpenseId |-> templateId]

RECURSIVE FirstAfterToday(_, _)
\* the first occurrence after today, stepping from date d
FirstAfterToday(d, frequency) ==
  LET n == calculateNextOccurrence(d, frequency)
  IN IF n = Thrown \/ n > today THEN n ELSE FirstAfterToday(n, frequency)

\* the cursor moved past every missed period at once
AdvancedTemplateCaughtUp(data) ==
  [data EXCEPT
     !.lastGenerated = data.nextOccurrence,
     !.nextOccurrence = FirstAfterToday(data.nextOccurrence, data.frequency)]

\* the cursor update after a materialization
AdvancedTemplate(data) ==
  [data EXCEPT
     !.lastGenerated = data.nextOccurrence,
     !.nextOccurrence =
        calculateNextOccurrence(data.nextOccurrence, data.frequency)]

\* the handler with a guard refusing an inactive template
generateExpenseFromRecurringActiveOnly(user, id) ==
  /\ UNCHANGED <<budgets, today, inflight>>
  /\ IF Access(recurring, id, user) # 0
     THEN /\ lastOp' = Done("generateExpenseFromRecurring",
                            Access(recurring, id, user), id, NoBudget)
          /\ UNCHANGED <<recurring, expenses, nextId>>
     ELSE IF ~recurring[id].isActive
     THEN /\ lastOp' = Done("generateExpenseFromRecurring", 400, id, NoBudget)
          /\ UNCHANGED <<recurring, expenses, nextId>>
     ELSE /\ nextId.e <= MaxExpenses
          /\ expenses' =
               (nextId.e :> ExpenseFromTemplate(recurring[id], id)) @@ expenses
          /\ nextId' = [nextId EXCEPT !.e = @ + 1]
          /\ recurring' = [recurring EXCEPT ![id] = AdvancedTemplate(@)]
          /\ lastOp' = Done("generateExpenseFromRecurring", 201, id, NoBudget)

\* the handler applying the expiry rule of the sweep: a template past its
\* end date is deactivated and nothing is generated
generateExpenseFromRecurringExpiring(user, id) ==
  /\ UNCHANGED <<budgets, today, inflight>>
  /\ IF Access(recurring, id, user) # 0
     THEN /\ lastOp' = Done("generateExpenseFromRecurring",
                            Access(recurring, id, user), id, NoBudget)
          /\ UNCHANGED <<recurring, expenses, nextId>>
     ELSE IF recurring[id].endDate # Null /\ recurring[id].endDate < today
     THEN /\ lastOp' = Done("generateExpenseFromRecurring", 400, id, NoBudget)
          /\ recurring' = [recurring EXCEPT ![id].isActive = FALSE]
          /\ UNCHANGED <<expenses, nextId>>
     ELSE /\ nextId.e <= MaxExpenses
          /\ expenses' =
               (nextId.e :> ExpenseFromTemplate(recurring[id], id)) @@ expenses
          /\ nextId' = [nextId EXCEPT !.e = @ + 1]
          /\ recurring' = [recurring EXCEPT ![id] = AdvancedTemplate(@)]
          /\ lastOp' = Done("generateExpenseFromRecurring", 201, id, NoBudget)

\* the expense is added first, the next occurrence computed afterwards: when
\* that throws, the handler answers 500 with the expense already stored
generateExpenseFromRecurring(user, id) ==
  /\ UNCHANGED <<budgets, today, inflight>>
  /\ IF Access(recurring, id, user) # 0
     THEN /\ lastOp' = Done("generateExpenseFromRecurring",
                            Access(recurring, id, user), id, NoBudget)
          /\ UNCHANGED <<recurring, expenses, nextId>>
     ELSE /\ nextId.e <= MaxExpenses
          /\ expenses' =
               (nextId.e :> ExpenseFromTemplate(recurring[id], id)) @@ expenses
          /\ nextId' = [nextId EXCEPT !.e = @ + 1]
          /\ IF calculateNextOccurrence(recurring[id].nextOccurrence,
                                        recurring[id].frequency) = Thrown
             THEN /\ lastOp' = Done("generateExpenseFromRecurring", 500, id,
                                    NoBudget)
                  /\ UNCHANGED recurring
             ELSE /\ recurring' =
                       [recurring EXCEPT ![id] = AdvancedTemplate(@)]
                  /\ lastOp' = Done("generateExpenseFromRecurring", 201, id,
                                    NoBudget)

\* the query without the isActive filter
DueTemplatesAnyState ==
  {t \in DOMAIN recurring :
     /\ recurring[t].autoGenerate
     /\ recurring[t].nextOccurrence <= today}

\* the handler as the three awaits it is made of, for requests that run at
\* the same time.  First await: recurringDocRef.get() and the two checks;
\* the request keeps the document it read.
generateExpenseFromRecurringRead(r, user, id) ==
  /\ r \notin DOMAIN inflight
  /\ UNCHANGED <<budgets, expenses, recurring, today, nextId>>
  /\ IF Access(recurring, id, user) # 0
     THEN /\ lastOp' = Done("generateExpenseFromRecurring",
                            Access(recurring, id, user), id, NoBudget)
          /\ inflight' = (r :> [op |-> "generateExpenseFromRecurring",
                                pc |-> "done", id |-> id]) @@ inflight
     ELSE /\ lastOp' = lastOp
          /\ inflight' = (r :> [op |-> "generateExpenseFromRecurring",
                                pc |-> "add", id |-> id,
                                data |-> recurring[id]]) @@ inflight

\* second await: expenses.add of the expense built from the document read;
\* calculateNextOccurrence runs right after it and its throw ends the
\* request with 500
generateExpenseFromRecurringAdd(r) ==
  /\ r \in DOMAIN inflight
  /\ inflight[r].op = "generateExpenseFromRecurring"
  /\ inflight[r].pc = "add"
  /\ nextId.e <= MaxExpenses
  /\ UNCHANGED <<budgets, recurring, today>>
  /\ expenses' =
       (nextId.e :> ExpenseFromTemplate(inflight[r].data, inflight[r].id))
         @@ expenses
  /\ nextId' = [nextId EXCEPT !.e = @ + 1]
  /\ IF calculateNextOccurrence(inflight[r].data.nextOccurrence,
                                inflight[r].data.frequency) = Thrown
     THEN /\ lastOp' = Done("generateExpenseFromRecurring", 500,
                            inflight[r].id, NoBudget)
          /\ inflight' = [inflight EXCEPT ![r].pc = "done"]
     ELSE /\ lastOp' = lastOp
          /\ inflight' = [inflight EXCEPT ![r].pc = "update"]

\* third await: recurringDocRef.update with the cursor computed from the
\* document read at the first await, over whatever the document holds now;
\* the update of a document deleted in between throws
generateExpenseFromRecurringUpdate(r) ==
  /\ r \in DOMAIN inflight
  /\ inflight[r].op = "generateExpenseFromRecurring"
  /\ inflight[r].pc = "update"
  /\ UNCHANGED <<budgets, expenses, today, nextId>>
  /\ inflight' = [inflight EXCEPT ![r].pc = "done"]
  /\ IF inflight[r].id \notin DOMAIN recurring
     THEN /\ lastOp' = Done("generateExpenseFromRecurring", 500,
                            inflight[r].id, NoBudget)
          /\ UNCHANGED recurring
     ELSE /\ lastOp' = Done("generateExpenseFromRecurring", 201,
                            inflight[r].id, NoBudget)
          /\ recurring' =
               [recurring EXCEPT
                  ![inflight[r].id].lastGenerated =
                     inflight[r].data.nextOccurrence,
                  ![inflight[r].id].nextOccurrence =
                     calculateNextOccurrence(inflight[r].data.nextOccurrence,
                                             inflight[r].data.frequency)]

\* the query without the nextOccurrence filter
DueTemplatesAnyDate ==
  {t \in DOMAIN recurring :
     /\ recurring[t].isActive
     /\ recurring[t].autoGenerate}

\* the query taking only the cursors strictly before today
DueTemplatesBeforeToday ==
  {t \in DOMAIN recurring :
     /\ recurring[t].isActive
     /\ recurring[t].autoGenerate
     /\ recurring[t].nextOccurrence < today}

\* the query without the autoGenerate filter
DueTemplatesAnyFlag ==
  {t \in DOMAIN recurring :
     /\ recurring[t].isActive
     /\ recurring[t].nextOccurrence <= today}

\* the templates the cron query returns
DueTemplates ==
  {t \in DOMAIN recurring :
     /\ recurring[t].isActive
     /\ recurring[t].autoGenerate
     /\ recurring[t].nextOccurrence <= today}

\* expiry judged against the cursor instead of the clock
ExpiredByCursor(data) ==
  data.endDate # Null /\ data.endDate < data.nextOccurrence

\* endDate && endDate < today
Expired(data) == data.endDate # Null /\ data.endDate < today

\* the position (from 0) of t among the ids of set s
Rank(s, t) == Cardinality({x \in s : x < t})

\* the sweep writing each template as the loop reaches it, without a batch:
\* a throw leaves the writes of the templates before it
generateDueExpensesUnbatched ==
  LET due == DueTemplates
      expired == {t \in due : Expired(recurring[t])}
      failing == {t \in due \ expired :
                    calculateNextOccurrence(recurring[t].nextOccurrence,
                                            recurring[t].frequency) = Thrown}
      reached == IF failing = {} THEN due
                 ELSE {t \in due : \A f \in failing : t < f}
      live == reached \ expired
      generated == Cardinality(live)
  IN /\ UNCHANGED <<budgets, today, inflight>>
     /\ nextId.e + Cardinality(due \ expired) - 1 <= MaxExpenses
     /\ recurring' =
          [t \in DOMAIN recurring |->
             IF t \in reached \cap expired
             THEN [recurring[t] EXCEPT !.isActive = FALSE]
             ELSE IF t \in live THEN AdvancedTemplate(recurring[t])
             ELSE recurring[t]]
     /\ expenses' =
          [e \in DOMAIN expenses
                 \cup {nextId.e + Rank(live, t) : t \in live} |->
             IF e \in DOMAIN expenses THEN expenses[e]
             ELSE LET t == CHOOSE x \in live :
                              nextId.e + Rank(live, x) = e
                  IN ExpenseFromTemplate(recurring[t], t)]
     /\ nextId' = [nextId EXCEPT !.e = @ + generated]
     /\ lastOp' = IF failing # {}
                  THEN Done("generateDueExpenses", 500, 0, NoBudget)
                  ELSE [Done("generateDueExpenses", 0, 0, NoBudget)
                          EXCEPT !.generated = generated]

\* the sweep skipping an expired template without deactivating it
generateDueExpensesSkipExpired ==
  LET due == DueTemplates
      expired == {t \in due : Expired(recurring[t])}
      live == due \ expired
      failed == \E t \in live :
                   calculateNextOccurrence(recurring[t].nextOccurrence,
                                           recurring[t].frequency) = Thrown
      generated == Cardinality(live)
  IN /\ UNCHANGED <<budgets, today, inflight>>
     /\ nextId.e + generated - 1 <= MaxExpenses
     /\ IF failed
        THEN /\ lastOp' = Done("generateDueExpenses", 500, 0, NoBudget)
             /\ UNCHANGED <<recurring, expenses, nextId>>
        ELSE /\ recurring' =
                  [t \in DOMAIN recurring |->
                     IF t \in live THEN AdvancedTemplate(recurring[t])
                     ELSE recurring[t]]
             /\ expenses' =
                  [e \in DOMAIN expenses
                         \cup {nextId.e + Rank(live, t) : t \in live} |->
                     IF e \in DOMAIN expenses THEN expenses[e]
                     ELSE LET t == CHOOSE x \in live :
                                      nextId.e + Rank(live, x) = e
                          IN ExpenseFromTemplate(recurring[t], t)]
             /\ nextId' = [nextId EXCEPT !.e = @ + generated]
             /\ lastOp' = [Done("generateDueExpenses", 0, 0, NoBudget)
                             EXCEPT !.generated = generated]

\* one batch: expired templates are deactivated, the others materialize one
\* expense and advance; a throw inside the loop abandons the whole batch
generateDueExpenses ==
  LET due == DueTemplates
      expired == {t \in due : Expired(recurring[t])}
      live == due \ expired
      failed == \E t \in live :
                   calculateNextOccurrence(recurring[t].nextOccurrence,
                                           recurring[t].frequency) = Thrown
      generated == Cardinality(live)
  IN /\ UNCHANGED <<budgets, today, inflight>>
     /\ nextId.e + generated - 1 <= MaxExpenses
     /\ IF failed
        THEN /\ lastOp' = Done("generateDueExpenses", 500, 0, NoBudget)
             /\ UNCHANGED <<recurring, expenses, nextId>>
        ELSE /\ recurring' =
                  [t \in DOMAIN recurring |->
                     IF t \in expired
                     THEN [recurring[t] EXCEPT !.isActive = FALSE]
                     ELSE IF t \in live THEN AdvancedTemplate(recurring[t])
                     ELSE recurring[t]]
             /\ expenses' =
                  [e \in DOMAIN expenses
                         \cup {nextId.e + Rank(live, t) : t \in live} |->
                     IF e \in DOMAIN expenses THEN expenses[e]
                     ELSE LET t == CHOOSE x \in live :
                                      nextId.e + Rank(live, x) = e
                          IN ExpenseFromTemplate(recurring[t], t)]
             /\ nextId' = [nextId EXCEPT !.e = @ + generated]
             /\ lastOp' = [Done("generateDueExpenses", 0, 0, NoBudget)
                             EXCEPT !.generated = generated]

\* the sweep when batch.commit() rejects: Firestore applies none of the
\* writes of a rejected batch, the catch block reports the failure
generateDueExpensesCommitRejected ==
  /\ DueTemplates # {}
  /\ UNCHANGED <<budgets, expenses, recurring, today, nextId, inflight>>
  /\ lastOp' = Done("generateDueExpenses", 500, 0, NoBudget)

\* POST /api/recurring-expenses bodies
TemplateBody(amount, category, description, frequency, startDate, endDate, autoGenerate, isActive) ==
  [amount |-> amount, category |-> category, description |-> description,
   frequency |-> frequency, startDate |-> startDate, endDate |-> endDate,
   autoGenerate |-> autoGenerate, isActive |-> isActive]

CreateTemplateBodies ==
  { TemplateBody(49900, "Rent", "gym", "daily", 20250114, Null, TRUE, TRUE),
    TemplateBody(49900, "Rent", "gym", "weekly", 20250108, 20250120, TRUE, TRUE),
    TemplateBody(8500, "Food", "box", "monthly", 20241231, Null, FALSE, TRUE),
    TemplateBody(8500, "Food", "box", "yearly", 20240229, 20250410, TRUE, TRUE),
    TemplateBody(8500, "Food", "box", "biweekly", 20250101, Null, TRUE, FALSE) }

\* refused: a frequency outside the list, an end date before the start
BadTemplateBodies ==
  { TemplateBody(8500, "Food", "box", "hourly", 20250101, Null, TRUE, TRUE),
    TemplateBody(8500, "Food", "box", "daily", 20250114, 20250101, TRUE, TRUE) }

\* PUT /api/recurring-expenses/:id bodies; the last one is refused
UpdateTemplateBodies ==
  LET none == [has |-> {}, amount |-> 0, frequency |-> "daily",
               startDate |-> Null, endDate |-> Null, isActive |-> TRUE,
               autoGenerate |-> TRUE, nextOccurrence |-> Null]
  IN { [none EXCEPT !.has = {"frequency"}, !.frequency = "weekly"],
       [none EXCEPT !.has = {"startDate"}, !.startDate = 20250120],
       [none EXCEPT !.has = {"nextOccurrence"}, !.nextOccurrence = 20250110],
       [none EXCEPT !.has = {"isActive"}, !.isActive = FALSE],
       [none EXCEPT !.has = {"isActive"}, !.isActive = TRUE],
       [none EXCEPT !.has = {"endDate"}, !.endDate = 20250110],
       [none EXCEPT !.has = {"frequency"}, !.frequency = "hourly"] }

NextRecurring ==
  \/ \E body \in CreateTemplateBodies \cup BadTemplateBodies :
        createRecurringExpense("u1", body)
  \/ \E u \in Users, id \in TemplateIds, body \in UpdateTemplateBodies :
        updateRecurringExpense(u, id, body)
  \/ \E u \in Users, id \in TemplateIds : deleteRecurringExpense(u, id)
  \/ \E u \in Users, id \in TemplateIds : generateExpenseFromRecurring(u, id)
  \/ generateDueExpenses
  \/ AdvanceDay

SpecRecurring == Init /\ [][NextRecurring]_vars

(***************************************************************************)
(* Properties of the budget progress engine                                *)
(***************************************************************************)
ReconcileDates == {20250131, 20250201}

\* some updateAffectedBudgets call is this step
IsReconcileStep ==
  /\ lastOp'.op = "updateAffectedBudgets"
  /\ \E u \in Users, d \in ReconcileDates : updateAffectedBudgets(u, d)

Reconciled(budget, store, now) ==
  LET p == calculateBudgetProgress(budget, budget.userId, store, now)
  IN /\ \A i \in DOMAIN budget.categoryBudgets :
           budget.categoryBudgets[i].spent = p.categoryBudgets[i].spent
     /\ budget.totalSpent = p.totalSpent
     /\ budget.totalRemaining = p.totalRemaining

\* C2: when an expense has been created, updated or deleted successfully,
\* every active budget of its user whose period contains the expense's date
\* has persisted spent, totalSpent and totalRemaining equal to the values
\* recomputed from the live expenses.
C2_ReconciledAfterExpenseMutation ==
  [][lastOp'.op \in {"createExpense", "updateExpense", "deleteExpense"} =>
       \A e \in DOMAIN expenses \cup DOMAIN expenses' :
          LET old == IF e \in DOMAIN expenses THEN {expenses[e]} ELSE {}
              new == IF e \in DOMAIN expenses' THEN {expenses'[e]} ELSE {}
          IN old # new =>
               \A x \in old \cup new : \A b \in DOMAIN budgets' :
                  ( /\ budgets'[b].userId = x.userId
                    /\ budgets'[b].isActive
                    /\ budgets'[b].period.startDate <= x.date
                    /\ x.date <= budgets'[b].period.endDate )
                  => Reconciled(budgets'[b], expenses', today')]_vars

\* sum of categoryBudgets[].limit
SumLimits(budget) ==
  SumField([i \in DOMAIN budget.categoryBudgets |->
              budget.categoryBudgets[i].limit], Len(budget.categoryBudgets))

\* C3: every stored budget has totalLimit equal to the sum of its category
\* limits.
C3_TotalLimitIsSumOfLimits ==
  \A b \in DOMAIN budgets :
     /\ IsNum(SumLimits(budgets[b]))
     /\ budgets[b].totalLimit = SumLimits(budgets[b])

\* the amounts of the user's expenses of one category dated inside the
\* closed period, added up exactly
ExactSpent(userId, category, period) ==
  SumAmounts(expenses,
             {e \in DOMAIN expenses :
                /\ expenses[e].userId = userId
                /\ expenses[e].category = category
                /\ period.startDate <= expenses[e].date
                /\ expenses[e].date <= period.endDate})

\* C4 (as claimed): a progress read returns for each category budget the
\* exact sum of the amounts of the user's expenses of that category dated
\* inside the closed period.
C4_SpentIsExactSum ==
  lastOp.op = "getBudgetProgress" =>
     \A i \in DOMAIN lastOp.resp.categoryBudgets :
        lastOp.resp.categoryBudgets[i].spent
          = ExactSpent(lastOp.resp.userId,
                       lastOp.resp.categoryBudgets[i].category,
                       lastOp.resp.period)

\* C4 (amended): the read returns that sum rounded to two decimals.
C4_SpentIsRoundedSum ==
  lastOp.op = "getBudgetProgress" =>
     \A i \in DOMAIN lastOp.resp.categoryBudgets :
        LET exact == ExactSpent(lastOp.resp.userId,
                                lastOp.resp.categoryBudgets[i].category,
                                lastOp.resp.period)
            spent == lastOp.resp.categoryBudgets[i].spent
        IN /\ spent % 10 = 0
           /\ spent - exact < 5
           /\ exact - spent <= 5

\* C4 witness: a read returned a category whose spent adds up two expenses,
\* one of them dated on the last day of the period, while an expense of
\* another user and one outside the period exist.
C4_Witness ==
  /\ lastOp.op = "getBudgetProgress"
  /\ \E i \in DOMAIN lastOp.resp.categoryBudgets :
        lastOp.resp.categoryBudgets[i].spent = 87500
  /\ \E e \in DOMAIN expenses :
        expenses[e].date = lastOp.resp.period.endDate

\* the progress a read of budget b returns from the given stores
ReadProgress(bs, es, now, b) ==
  calculateBudgetProgress(bs[b], bs[b].userId, es, now)

WholeCents(x) == IsNum(x) /\ x % 10 = 0

\* the expense of the request falls in the period of an active budget of the
\* same user
InActiveBudget(bs, b, u, date) ==
  /\ bs[b].userId = u
  /\ bs[b].isActive
  /\ bs[b].period.startDate <= date
  /\ date <= bs[b].period.endDate

\* C5 (as claimed): after a successful createExpense of amount a dated inside
\* an active budget's period, a read of that budget shows the expense's
\* category with spent larger by exactly a and remaining smaller by exactly a
\* than a read just before.
C5_RoundTripExact ==
  [][\A u \in Users, body \in CreateExpenseBodies :
       (lastOp'.status = 201 /\ createExpense(u, body)) =>
         \A b \in DOMAIN budgets :
            InActiveBudget(budgets, b, u, body.date) =>
              LET before == ReadProgress(budgets, expenses, today, b)
                  after == ReadProgress(budgets', expenses', today', b)
              IN \A i \in DOMAIN before.categoryBudgets :
                    before.categoryBudgets[i].category = body.category =>
                      /\ after.categoryBudgets[i].spent
                           = before.categoryBudgets[i].spent + body.amount
                      /\ after.categoryBudgets[i].remaining
                           = before.categoryBudgets[i].remaining - body.amount]_vars

\* C5 (amended): the same, provided the amount, the amounts already counted
\* for that category and the category limit are whole multiples of 0.01 (the
\* read rounds spent and remaining to two decimals).
C5_RoundTripWholeCents ==
  [][\A u \in Users, body \in CreateExpenseBodies :
       (lastOp'.status = 201 /\ createExpense(u, body)) =>
         \A b \in DOMAIN budgets :
            InActiveBudget(budgets, b, u, body.date) =>
              LET before == ReadProgress(budgets, expenses, today, b)
                  after == ReadProgress(budgets', expenses', today', b)
              IN \A i \in DOMAIN before.categoryBudgets :
                    ( /\ before.categoryBudgets[i].category = body.category
                      /\ WholeCents(body.amount)
                      /\ WholeCents(budgets[b].categoryBudgets[i].limit)
                      /\ \A e \in ExpensesInPeriod(expenses, u,
                                     budgets[b].period.startDate,
                                     budgets[b].period.endDate) :
                            expenses[e].category = body.category =>
                               WholeCents(expenses[e].amount) )
                    =>
                      /\ after.categoryBudgets[i].spent
                           = before.categoryBudgets[i].spent + body.amount
                      /\ after.categoryBudgets[i].remaining
                           = before.categoryBudgets[i].remaining - body.amount]_vars

\* C5 witness: an expense in whole cents has just been created inside the
\* period of an active budget of its user that budgets its category and is
\* now over its limit.
C5_Witness ==
  /\ lastOp.op = "createExpense"
  /\ lastOp.id \in DOMAIN expenses
  /\ WholeCents(expenses[lastOp.id].amount)
  /\ \E b \in DOMAIN budgets :
        /\ InActiveBudget(budgets, b, expenses[lastOp.id].userId,
                          expenses[lastOp.id].date)
        /\ \E i \in DOMAIN budgets[b].categoryBudgets :
              /\ budgets[b].categoryBudgets[i].category
                   = expenses[lastOp.id].category
              /\ ReadProgress(budgets, expenses, today, b)
                   .categoryBudgets[i].remaining < 0

RECURSIVE SpentUpTo(_, _)
\* spent of the first n category budgets added up
SpentUpTo(cbs, n) ==
  IF n = 0 THEN 0 ELSE SpentUpTo(cbs, n - 1) + cbs[n].spent

\* C15: in every progress computation totalSpent is the sum of the spent
\* values of the budget's categoryBudgets entries, so that an expense of the
\* period in a category the budget does not list adds nothing, and
\* totalRemaining is totalLimit minus that totalSpent; the same holds for
\* the totals a computation has persisted.
C15_TotalsOverBudgetedCategories ==
  \A b \in DOMAIN budgets :
     LET p == ReadProgress(budgets, expenses, today, b)
     IN /\ p.totalSpent
             = SpentUpTo(p.categoryBudgets, Len(p.categoryBudgets))
        /\ p.totalRemaining = budgets[b].totalLimit - p.totalSpent
        /\ budgets[b].totalSpent
             = SpentUpTo(budgets[b].categoryBudgets,
                         Len(budgets[b].categoryBudgets))
        /\ budgets[b].totalRemaining
             = budgets[b].totalLimit - budgets[b].totalSpent

\* C15 witness: a read has just returned a positive totalSpent for a budget
\* whose period holds an expense of its user in a category it does not list.
C15_Witness ==
  /\ lastOp.op = "getBudgetProgress"
  /\ lastOp.resp.totalSpent > 0
  /\ \E e \in DOMAIN expenses :
        /\ expenses[e].userId = lastOp.resp.userId
        /\ lastOp.resp.period.startDate <= expenses[e].date
        /\ expenses[e].date <= lastOp.resp.period.endDate
        /\ \A i \in DOMAIN lastOp.resp.categoryBudgets :
              lastOp.resp.categoryBudgets[i].category # expenses[e].category

\* C16: in every progress computation an alert whose category has a freshly
\* computed percentage at or above the alert's threshold, equality included,
\* is triggered; a budget of Food 100 with an alert at 80 and in-period Food
\* expenses of 85 in all reads spent 85, remaining 15, percentage 85 and the
\* alert triggered.
C16_ThresholdReachedTriggers ==
  \A b \in DOMAIN budgets :
     LET p == ReadProgress(budgets, expenses, today, b)
     IN /\ \A i \in DOMAIN p.alerts : \A k \in DOMAIN p.categoryBudgets :
              ( /\ p.categoryBudgets[k].category = p.alerts[i].category
                /\ \A j \in 1..(k - 1) :
                      p.categoryBudgets[j].category # p.alerts[i].category
                /\ p.categoryBudgets[k].percentage >= p.alerts[i].threshold )
              => p.alerts[i].triggered
        /\ ( /\ Len(budgets[b].categoryBudgets) = 1
             /\ budgets[b].categoryBudgets[1].category = "Food"
             /\ budgets[b].categoryBudgets[1].limit = 100000
             /\ ExactSpent(budgets[b].userId, "Food", budgets[b].period)
                  = 85000
             /\ Len(budgets[b].alerts) = 1
             /\ budgets[b].alerts[1].category = "Food"
             /\ budgets[b].alerts[1].threshold = 8000 )
           => /\ p.categoryBudgets[1].spent = 85000
              /\ p.categoryBudgets[1].remaining = 15000
              /\ p.categoryBudgets[1].percentage = 8500
              /\ p.alerts[1].triggered

\* C16 witness: a read has just returned Food at spent 85, remaining 15,
\* percentage 85 with the alert at threshold 80 triggered.
C16_Witness ==
  /\ lastOp.op = "getBudgetProgress"
  /\ Len(lastOp.resp.categoryBudgets) = 1
  /\ lastOp.resp.categoryBudgets[1].spent = 85000
  /\ lastOp.resp.categoryBudgets[1].remaining = 15000
  /\ lastOp.resp.categoryBudgets[1].percentage = 8500
  /\ Len(lastOp.resp.alerts) = 1
  /\ lastOp.resp.alerts[1].threshold = 8000
  /\ lastOp.resp.alerts[1].triggered

\* the step is the persisted recompute of the budgets holding 2025-01-01
IsStampStep ==
  /\ lastOp'.op = "updateAffectedBudgets"
  /\ updateAffectedBudgets("u1", 20250101)

C18_PeriodEndAfterStart ==
  \A b \in DOMAIN budgets :
     budgets[b].period.endDate > budgets[b].period.startDate

\* C19: every stored alert has a threshold from 0 to 100 and every stored
\* category budget a numeric limit of at least 0, after any createBudget,
\* updateBudget and configureAlerts.
C19_StoredValuesInRange ==
  \A b \in DOMAIN budgets :
     /\ \A i \in DOMAIN budgets[b].alerts :
           /\ budgets[b].alerts[i].threshold >= 0
           /\ budgets[b].alerts[i].threshold <= 10000
     /\ \A i \in DOMAIN budgets[b].categoryBudgets :
           /\ IsNum(budgets[b].categoryBudgets[i].limit)
           /\ budgets[b].categoryBudgets[i].limit >= 0

(***************************************************************************)
(* A store that already holds a template whose frequency is none of the    *)
(* five known values (a document written before the validation existed or  *)
(* by another writer): the case calculateNextOccurrence's default branch   *)
(* is there for.  No request of this API can store such a frequency.       *)
(***************************************************************************)
LegacyTemplate ==
  [userId |-> "u1", amount |-> 8500, category |-> "Food",
   description |-> "box", frequency |-> "quarterly", startDate |-> 20241015,
   endDate |-> Null, autoGenerate |-> TRUE, isActive |-> TRUE,
   nextOccurrence |-> 20250115, lastGenerated |-> Null]

InitLegacy ==
  /\ budgets = <<>>
  /\ expenses = <<>>
  /\ recurring = (1 :> LegacyTemplate)
  /\ today = 20250115
  /\ nextId = [b |-> 1, e |-> 1, t |-> 2]
  /\ lastOp = Done("init", 0, 0, NoBudget)
  /\ inflight = <<>>

NextLegacy ==
  \/ \E u \in Users, id \in TemplateIds, body \in UpdateTemplateBodies :
        updateRecurringExpense(u, id, body)
  \/ \E u \in Users, id \in TemplateIds : deleteRecurringExpense(u, id)
  \/ \E u \in Users, id \in TemplateIds : generateExpenseFromRecurring(u, id)
  \/ generateDueExpenses
  \/ AdvanceDay

SpecLegacy == InitLegacy /\ [][NextLegacy]_vars

(***************************************************************************)
(* A store with several templates, for what a sweep does to the templates  *)
(* next to the one it is processing: a daily one that is due, a weekly one *)
(* that is due and expires on 2025-01-20, a paused one with an unknown     *)
(* frequency that makes the sweep throw once it is switched on, and a      *)
(* monthly one of another user; the first user also has a budget.          *)
(***************************************************************************)
SweepTemplateIds == {1, 2, 3, 4}

SweepTemplates ==
  (1 :> [userId |-> "u1", amount |-> 49900, category |-> "Rent",
         description |-> "gym", frequency |-> "daily",
         startDate |-> 20250110, endDate |-> Null, autoGenerate |-> TRUE,
         isActive |-> TRUE, nextOccurrence |-> 20250115,
         lastGenerated |-> 20250114])
  @@ (2 :> [userId |-> "u1", amount |-> 1200, category |-> "Food",
            description |-> "milk", frequency |-> "weekly",
            startDate |-> 20250108, endDate |-> 20250120,
            autoGenerate |-> TRUE, isActive |-> TRUE,
            nextOccurrence |-> 20250115, lastGenerated |-> Null])
  @@ (3 :> [LegacyTemplate EXCEPT !.isActive = FALSE])
  @@ (4 :> [userId |-> "u2", amount |-> 8500, category |-> "Food",
            description |-> "box", frequency |-> "monthly",
            startDate |-> 20241215, endDate |-> Null,
            autoGenerate |-> TRUE, isActive |-> TRUE,
            nextOccurrence |-> 20250115, lastGenerated |-> Null])

\* the budget of u1 for January as createBudget stored it on 2025-01-15
\* over an empty expense collection
SweepBudget ==
  calculateBudgetProgress(
    [userId |-> "u1"] @@
      sanitizeBudget([period |-> Jan,
                      categoryBudgets |-> <<CB("Food", 100000, Undefined)>>,
                      alerts |-> <<AL("Food", 8000)>>, isActive |-> TRUE]),
    "u1", <<>>, 20250115)

InitSweep ==
  /\ budgets = 1 :> SweepBudget
  /\ expenses = <<>>
  /\ recurring = SweepTemplates
  /\ today = 20250115
  /\ nextId = [b |-> 2, e |-> 1, t |-> 5]
  /\ lastOp = Done("init", 0, 0, NoBudget)
  /\ inflight = <<>>

\* PUT bodies that pause or resume a template, or switch its automatic
\* generation off
ToggleBodies ==
  {body \in UpdateTemplateBodies : body.has = {"isActive"}}
  \cup {[has |-> {"autoGenerate"}, amount |-> 0, frequency |-> "daily",
          startDate |-> Null, endDate |-> Null, isActive |-> TRUE,
          autoGenerate |-> FALSE, nextOccurrence |-> Null]}

NextSweep ==
  \/ \E id \in SweepTemplateIds, body \in ToggleBodies :
        updateRecurringExpense("u1", id, body)
  \/ \E u \in Users, id \in SweepTemplateIds :
        generateExpenseFromRecurring(u, id)
  \/ generateDueExpenses
  \/ generateDueExpensesCommitRejected
  \/ AdvanceDay

SpecSweep == InitSweep /\ [][NextSweep]_vars

(***************************************************************************)
(* calculateNextOccurrence over the calendar: a store holding one template *)
(* of any known frequency started on any day from 2024-01-01 to 2025-03-31 *)
(* (a leap February, every month end, a year end), generated by hand and   *)
(* by the sweep on a day when everything is due.                           *)
(***************************************************************************)
CalendarDates ==
  {d \in 20240101..20250331 :
     /\ Month(d) \in 1..12
     /\ Day(d) \in 1..DaysInMonth(Year(d), Month(d))}

InitAdvance ==
  /\ budgets = <<>>
  /\ expenses = <<>>
  /\ \E d \in CalendarDates, f \in ValidFrequencies :
        recurring =
          (1 :> [userId |-> "u1", amount |-> 8500, category |-> "Food",
                 description |-> "box", frequency |-> f, startDate |-> d,
                 endDate |-> Null, autoGenerate |-> TRUE, isActive |-> TRUE,
                 nextOccurrence |-> calculateNextOccurrence(d, f),
                 lastGenerated |-> Null])
  /\ today = 20271231
  /\ nextId = [b |-> 1, e |-> 1, t |-> 2]
  /\ lastOp = Done("init", 0, 0, NoBudget)
  /\ inflight = <<>>

NextAdvance ==
  \/ \E id \in TemplateIds : generateExpenseFromRecurring("u1", id)
  \/ generateDueExpenses

SpecAdvance == InitAdvance /\ [][NextAdvance]_vars

(***************************************************************************)
(* The first two of these templates with generation requests that         *)
(* overlap: two requests, each running as its three awaits, next to a      *)
(* single sweep trigger (one run at a time, never overlapping another) and *)
(* template edits.                                                         *)
(***************************************************************************)
InitConcurrent ==
  /\ budgets = <<>>
  /\ expenses = <<>>
  /\ recurring = [t \in {1, 2} |-> SweepTemplates[t]]
  /\ today = 20250115
  /\ nextId = [b |-> 1, e |-> 1, t |-> 3]
  /\ lastOp = Done("init", 0, 0, NoBudget)
  /\ inflight = <<>>

NextConcurrent ==
  \/ \E r \in Requests, u \in Users, id \in {1, 2} :
        generateExpenseFromRecurringRead(r, u, id)
  \/ \E r \in Requests : generateExpenseFromRecurringAdd(r)
  \/ \E r \in Requests : generateExpenseFromRecurringUpdate(r)
  \/ generateDueExpenses
  \/ \E id \in {1, 2}, body \in ToggleBodies :
        updateRecurringExpense("u1", id, body)
  \/ deleteRecurringExpense("u1", 2)

SpecConcurrent == InitConcurrent /\ [][NextConcurrent]_vars

(***************************************************************************)
(* The cron job alone: a store holding one active template with an end     *)
(* date, of any known frequency, started on any day from 2024-12-15 to     *)
(* 2025-01-14, with either value of autoGenerate; nobody edits it.  The    *)
(* job is scheduled for every midnight and the clock keeps moving, so both *)
(* steps are taken again and again as long as they can be.                 *)
(***************************************************************************)
InitDaily ==
  /\ budgets = <<>>
  /\ expenses = <<>>
  /\ \E d \in {x \in CalendarDates : x >= 20241215 /\ x <= 20250114},
        f \in ValidFrequencies, end \in {20250120, 20250210},
        auto \in BOOLEAN :
        recurring =
          (1 :> [userId |-> "u1", amount |-> 8500, category |-> "Food",
                 description |-> "box", frequency |-> f, startDate |-> d,
                 endDate |-> end, autoGenerate |-> auto, isActive |-> TRUE,
                 nextOccurrence |-> calculateNextOccurrence(d, f),
                 lastGenerated |-> Null])
  /\ today = 20250115
  /\ nextId = [b |-> 1, e |-> 1, t |-> 2]
  /\ lastOp = Done("init", 0, 0, NoBudget)
  /\ inflight = <<>>

\* the clock reaching a later midnight, up to a day by which every cursor
\* of these templates has come due
AdvanceCalendar ==
  /\ \E d \in Days \cup {20261231} : d > today /\ today' = d
  /\ UNCHANGED <<budgets, expenses, recurring, nextId, lastOp, inflight>>

NextDaily ==
  \/ generateDueExpenses
  \/ AdvanceCalendar

SpecDaily ==
  /\ InitDaily
  /\ [][NextDaily]_vars
  /\ WF_vars(generateDueExpenses)
  /\ WF_vars(AdvanceCalendar)

(***************************************************************************)
(* Catch-up on one day: a store holding one active autoGenerate template   *)
(* without an end date, of any known frequency, started on any day from    *)
(* 2024-11-01 to 2025-01-14 that leaves it at most MaxExpenses periods     *)
(* behind on 2025-01-15, and the job run again and again on that day.      *)
(***************************************************************************)
RECURSIVE Occurrence(_, _, _)
\* the n-th occurrence after date d
Occurrence(d, frequency, n) ==
  IF n = 0 THEN d
  ELSE calculateNextOccurrence(Occurrence(d, frequency, n - 1), frequency)

InitCatchUp ==
  /\ budgets = <<>>
  /\ expenses = <<>>
  /\ today = 20250115
  /\ \E d \in {x \in CalendarDates : x >= 20241101 /\ x <= 20250114},
        f \in ValidFrequencies :
        /\ Occurrence(d, f, MaxExpenses + 1) > today
        /\ recurring =
             (1 :> [userId |-> "u1", amount |-> 8500, category |-> "Food",
                    description |-> "box", frequency |-> f, startDate |-> d,
                    endDate |-> Null, autoGenerate |-> TRUE,
                    isActive |-> TRUE,
                    nextOccurrence |-> calculateNextOccurrence(d, f),
                    lastGenerated |-> Null])
  /\ nextId = [b |-> 1, e |-> 1, t |-> 2]
  /\ lastOp = Done("init", 0, 0, NoBudget)
  /\ inflight = <<>>

NextCatchUp == generateDueExpenses

SpecCatchUp ==
  /\ InitCatchUp
  /\ [][NextCatchUp]_vars
  /\ WF_vars(generateDueExpenses)

(***************************************************************************)
(* Properties of the recurring expense scheduler                           *)
(***************************************************************************)
\* the request reaches the template: it exists and belongs to the caller
Owns(u, t) == t \in DOMAIN recurring /\ recurring[t].userId = u

\* C6 (as claimed): generateExpenseFromRecurring on a template with
\* isActive = false is rejected, creates no expense and leaves the template
\* unchanged.
C6_InactiveTemplateRejected ==
  [][\A u \in Users, t \in TemplateIds :
       (generateExpenseFromRecurring(u, t) /\ Owns(u, t)
          /\ ~recurring[t].isActive)
       => /\ lastOp'.status >= 400
          /\ expenses' = expenses
          /\ recurring' = recurring]_vars

\* C6 (amended): generateExpenseFromRecurring does not look at isActive: on
\* an inactive template of the caller it answers 201, creates one expense
\* dated at the template's nextOccurrence that refers to the template, sets
\* lastGenerated to that date and advances nextOccurrence by one step; the
\* template stays inactive.
C6_InactiveTemplateGenerates ==
  [][\A u \in Users, t \in TemplateIds :
       (generateExpenseFromRecurring(u, t) /\ Owns(u, t)
          /\ ~recurring[t].isActive)
       => /\ lastOp'.status = 201
          /\ \E e \in DOMAIN expenses' \ DOMAIN expenses :
                /\ DOMAIN expenses' = DOMAIN expenses \cup {e}
                /\ expenses'[e].recurringExpenseId = t
                /\ expenses'[e].date = recurring[t].nextOccurrence
          /\ recurring'[t].lastGenerated = recurring[t].nextOccurrence
          /\ recurring'[t].nextOccurrence > recurring[t].nextOccurrence
          /\ ~recurring'[t].isActive]_vars

\* C6 witness: a generation has just succeeded on a template that is
\* inactive.
C6_Witness ==
  /\ lastOp.op = "generateExpenseFromRecurring"
  /\ lastOp.status = 201
  /\ lastOp.id \in DOMAIN recurring
  /\ ~recurring[lastOp.id].isActive
  /\ \E e \in DOMAIN expenses :
        /\ expenses[e].recurringExpenseId = lastOp.id
        /\ expenses[e].date = recurring[lastOp.id].lastGenerated

Anchor(data) ==
  IF data.lastGenerated # Null THEN data.lastGenerated ELSE data.startDate

\* C8: every stored template has nextOccurrence = advance(lastGenerated,
\* frequency) when lastGenerated is set and advance(startDate, frequency)
\* otherwise, with its currently stored startDate and frequency.
C8_NextOccurrenceIsOneStepFromAnchor ==
  \A t \in DOMAIN recurring :
     recurring[t].nextOccurrence
       = calculateNextOccurrence(Anchor(recurring[t]), recurring[t].frequency)

\* C9: an updateRecurringExpense that changes frequency and/or startDate
\* stores nextOccurrence = advance(lastGenerated, new frequency) when
\* lastGenerated is set, otherwise advance(start date after the edit, new
\* frequency).
C9_EditRecomputesFromNewAnchor ==
  [][\A u \in Users, t \in TemplateIds, body \in UpdateTemplateBodies :
       (updateRecurringExpense(u, t, body) /\ lastOp'.status = 200
          /\ ("frequency" \in body.has \/ "startDate" \in body.has))
       => recurring'[t].nextOccurrence
            = calculateNextOccurrence(Anchor(recurring'[t]),
                                      recurring'[t].frequency)]_vars

\* C10: a sweep that completes deactivates every selected template (active,
\* autoGenerate, nextOccurrence <= today) whose endDate is set and earlier
\* than today, leaves its nextOccurrence and lastGenerated as they were and
\* creates no expense that refers to it.
C10_SweepExpiresWithoutGenerating ==
  [][(generateDueExpenses /\ lastOp'.op = "generateDueExpenses") =>
       \A t \in DOMAIN recurring :
          ( /\ recurring[t].isActive
            /\ recurring[t].autoGenerate
            /\ recurring[t].nextOccurrence <= today
            /\ recurring[t].endDate # Null
            /\ recurring[t].endDate < today )
          => /\ ~recurring'[t].isActive
             /\ recurring'[t].nextOccurrence = recurring[t].nextOccurrence
             /\ recurring'[t].lastGenerated = recurring[t].lastGenerated
             /\ \A e \in DOMAIN expenses' \ DOMAIN expenses :
                   expenses'[e].recurringExpenseId # t]_vars

\* C10 witness: a sweep has just completed without generating anything and
\* left inactive a template that is flagged autoGenerate, is past its endDate
\* and whose cursor is still on or before today.
C10_Witness ==
  /\ lastOp.op = "generateDueExpenses"
  /\ lastOp.generated = 0
  /\ \E t \in DOMAIN recurring :
        /\ ~recurring[t].isActive
        /\ recurring[t].autoGenerate
        /\ recurring[t].endDate # Null
        /\ recurring[t].endDate < today
        /\ recurring[t].nextOccurrence <= today
        /\ recurring[t].nextOccurrence <= recurring[t].endDate

\* the templates a sweep run at the current state selects
Selected ==
  {t \in DOMAIN recurring :
     /\ recurring[t].isActive
     /\ recurring[t].autoGenerate
     /\ recurring[t].nextOccurrence <= today}

\* the selected templates past their end date
SelectedExpired ==
  {t \in Selected :
     recurring[t].endDate # Null /\ recurring[t].endDate < today}

\* the step is a run of the sweep, whatever its outcome
IsSweepStep ==
  /\ lastOp'.status \in {0, 500}
  /\ generateDueExpenses \/ generateDueExpensesCommitRejected

C12_SingleGenerationEffect ==
  [][\A u \in Users, t \in SweepTemplateIds :
       (lastOp'.status = 201 /\ generateExpenseFromRecurring(u, t)) =>
         /\ \E e \in DOMAIN expenses' \ DOMAIN expenses :
               /\ DOMAIN expenses' = DOMAIN expenses \cup {e}
               /\ expenses'[e].userId = recurring[t].userId
               /\ expenses'[e].amount = recurring[t].amount
               /\ expenses'[e].category = recurring[t].category
               /\ expenses'[e].description = recurring[t].description
               /\ expenses'[e].date = recurring[t].nextOccurrence
               /\ expenses'[e].recurringExpenseId = t
               /\ expenses'[e].aiSuggested = FALSE
         /\ \A e \in DOMAIN expenses : expenses'[e] = expenses[e]
         /\ DOMAIN recurring' = DOMAIN recurring
         /\ recurring'[t] =
               [recurring[t] EXCEPT
                  !.lastGenerated = recurring[t].nextOccurrence,
                  !.nextOccurrence =
                     calculateNextOccurrence(recurring[t].nextOccurrence,
                                             recurring[t].frequency)]
         /\ \A x \in DOMAIN recurring \ {t} :
               recurring'[x] = recurring[x]]_vars

\* C12 witness: a generation has just succeeded, on a day later than the due
\* date it materialized, next to other templates.
C12_Witness ==
  /\ lastOp.op = "generateExpenseFromRecurring"
  /\ lastOp.status = 201
  /\ lastOp.id \in DOMAIN recurring
  /\ DOMAIN recurring # {lastOp.id}
  /\ recurring[lastOp.id].lastGenerated < today
  /\ \E e \in DOMAIN expenses :
        /\ expenses[e].recurringExpenseId = lastOp.id
        /\ expenses[e].date = recurring[lastOp.id].lastGenerated

\* C13: advance is strictly increasing: every template's nextOccurrence is
\* later than the date it was advanced from (its startDate before the first
\* generation, the date last generated afterwards), for every calendar date
\* and every known frequency; so each generation, manual or by the sweep,
\* moves nextOccurrence strictly forward.
C13_AdvanceStrictlyIncreasing ==
  \A t \in DOMAIN recurring :
     /\ recurring[t].nextOccurrence > recurring[t].startDate
     /\ recurring[t].lastGenerated # Null =>
           /\ recurring[t].nextOccurrence > recurring[t].lastGenerated
           /\ recurring[t].lastGenerated > recurring[t].startDate

\* C13 witness: a template started on the last day of a year has been
\* generated, the step crossing the year end.
C13_Witness ==
  /\ lastOp.generated = 1
  /\ \E t \in DOMAIN recurring :
        /\ recurring[t].startDate = 20241231
        /\ recurring[t].lastGenerated # Null
        /\ Year(recurring[t].lastGenerated) = 2025

RECURSIVE DaysBeforeMonth(_, _)
\* days of year y before month m
DaysBeforeMonth(y, m) ==
  IF m = 1 THEN 0 ELSE DaysBeforeMonth(y, m - 1) + DaysInMonth(y, m - 1)

\* the number of the day d counted from 2024-01-01
Ordinal(d) ==
  365 * (Year(d) - 2024)
    + Cardinality({y \in 2024..(Year(d) - 1) : IsLeap(y)})
    + DaysBeforeMonth(Year(d), Month(d)) + Day(d)

\* day d of month m of year y, rolled into the following month by the days
\* the month lacks
SameDayOrRolled(y, m, d) ==
  IF d <= DaysInMonth(y, m) THEN y * 10000 + m * 100 + d
  ELSE IF m = 12 THEN (y + 1) * 10000 + 100 + (d - DaysInMonth(y, m))
  ELSE y * 10000 + (m + 1) * 100 + (d - DaysInMonth(y, m))

\* what one step of frequency f from date a has to give
ExpectedStep(a, n, f) ==
  CASE f = "daily" -> Ordinal(n) = Ordinal(a) + 1
    [] f = "weekly" -> Ordinal(n) = Ordinal(a) + 7
    [] f = "biweekly" -> Ordinal(n) = Ordinal(a) + 14
    [] f = "monthly" ->
         n = IF Month(a) = 12 THEN SameDayOrRolled(Year(a) + 1, 1, Day(a))
             ELSE SameDayOrRolled(Year(a), Month(a) + 1, Day(a))
    [] f = "yearly" -> n = SameDayOrRolled(Year(a) + 1, Month(a), Day(a))

\* C14: one step adds exactly 1, 7 or 14 calendar days for daily, weekly and
\* biweekly, and one calendar month or year keeping the day of the month for
\* monthly and yearly, rolling into the following month by the excess days
\* when the target month lacks that day: 2025-01-31 monthly gives
\* 2025-03-03 and 2024-02-29 yearly gives 2025-03-01.
C14_CalendarSteps ==
  /\ calculateNextOccurrence(20250131, "monthly") = 20250303
  /\ calculateNextOccurrence(20240229, "yearly") = 20250301
  /\ \A t \in DOMAIN recurring :
        ExpectedStep(Anchor(recurring[t]), recurring[t].nextOccurrence,
                     recurring[t].frequency)

\* C14 witness: a monthly template that was due on 2025-01-31 has been
\* generated and is now due on 2025-03-03.
C14_Witness ==
  \E t \in DOMAIN recurring :
     /\ recurring[t].frequency = "monthly"
     /\ recurring[t].lastGenerated = 20250131
     /\ recurring[t].nextOccurrence = 20250303
     /\ \E e \in DOMAIN expenses :
           expenses[e].recurringExpenseId = t /\ expenses[e].date = 20250131

\* C20: a template goes from inactive to active only in an
\* updateRecurringExpense step whose body carries isActive = true; a sweep
\* leaves every inactive template exactly as it was and creates no expense
\* that refers to one, and a manual generation or an edit without isActive
\* leaves isActive alone.
C20_NoAutomaticReactivation ==
  [][/\ \A t \in DOMAIN recurring \cap DOMAIN recurring' :
          (~recurring[t].isActive /\ recurring'[t].isActive) =>
             /\ lastOp'.op = "updateRecurringExpense"
             /\ \E body \in UpdateTemplateBodies :
                   /\ "isActive" \in body.has
                   /\ body.isActive
                   /\ updateRecurringExpense(recurring[t].userId, t, body)
     /\ (lastOp'.op = "generateDueExpenses" /\ generateDueExpenses) =>
          \A t \in DOMAIN recurring :
             ~recurring[t].isActive =>
                /\ recurring'[t] = recurring[t]
                /\ \A e \in DOMAIN expenses' \ DOMAIN expenses :
                      expenses'[e].recurringExpenseId # t]_vars

\* C20 witness: the template that was created paused is active after an
\* updateRecurringExpense.
C20_Witness ==
  /\ lastOp.op = "updateRecurringExpense"
  /\ lastOp.id \in DOMAIN recurring
  /\ recurring[lastOp.id].frequency = "biweekly"
  /\ recurring[lastOp.id].startDate = 20250101
  /\ recurring[lastOp.id].isActive

(***************************************************************************)
(* Properties of zero limits, of overlapping requests and of the cron      *)
(* sweep over time                                                         *)
(***************************************************************************)
\* C21: a category budget whose limit is 0 has percentage 0, a finite number,
\* in what a progress computation returns and in what the handlers store,
\* whatever was spent in the category.
C21_ZeroLimitPercentageZero ==
  \A b \in DOMAIN budgets :
     LET p == ReadProgress(budgets, expenses, today, b)
     IN \A i \in DOMAIN p.categoryBudgets :
           budgets[b].categoryBudgets[i].limit = 0 =>
              /\ p.categoryBudgets[i].limit = 0
              /\ p.categoryBudgets[i].percentage = 0
              /\ budgets[b].categoryBudgets[i].percentage = 0
              /\ IsFinite(p.categoryBudgets[i].spent)

\* C21 witness: a read has just returned a category with limit 0, a positive
\* amount spent and percentage 0.
C21_Witness ==
  /\ lastOp.op = "getBudgetProgress"
  /\ \E i \in DOMAIN lastOp.resp.categoryBudgets :
        /\ lastOp.resp.categoryBudgets[i].limit = 0
        /\ lastOp.resp.categoryBudgets[i].spent > 0
        /\ lastOp.resp.categoryBudgets[i].percentage = 0

C23_SweepOneStepPerRun ==
  [][(lastOp'.op = "generateDueExpenses" /\ generateDueExpenses) =>
       LET created == DOMAIN expenses' \ DOMAIN expenses
       IN /\ lastOp'.generated = Cardinality(created)
          /\ \A e \in created :
                expenses'[e].recurringExpenseId \in Selected \ SelectedExpired
          /\ \A t \in Selected \ SelectedExpired :
                /\ Cardinality({e \in created :
                                  expenses'[e].recurringExpenseId = t}) = 1
                /\ \A e \in created :
                      expenses'[e].recurringExpenseId = t =>
                         expenses'[e].date = recurring[t].nextOccurrence
                /\ ExpectedStep(recurring[t].nextOccurrence,
                                recurring'[t].nextOccurrence,
                                recurring[t].frequency)]_vars

\* C23 witness: a sweep has just created two expenses for two templates, and
\* one of the two is still overdue after its single step.
C23_Witness ==
  /\ lastOp.op = "generateDueExpenses"
  /\ lastOp.generated = 2
  /\ \E t \in DOMAIN recurring, e \in DOMAIN expenses :
        /\ expenses[e].recurringExpenseId = t
        /\ expenses[e].date = recurring[t].lastGenerated
        /\ recurring[t].nextOccurrence < today

\* C24: a sweep run, whatever its outcome, leaves every template that is
\* inactive, or has autoGenerate = false, or has nextOccurrence > today as it
\* was and creates no expense referring to it; it changes or deletes no
\* expense that existed before the run and no budget.
C24_SweepFrame ==
  [][IsSweepStep =>
       /\ budgets' = budgets
       /\ \A e \in DOMAIN expenses :
             e \in DOMAIN expenses' /\ expenses'[e] = expenses[e]
       /\ DOMAIN recurring' = DOMAIN recurring
       /\ \A t \in DOMAIN recurring :
             ( \/ ~recurring[t].isActive
               \/ ~recurring[t].autoGenerate
               \/ recurring[t].nextOccurrence > today )
             => /\ recurring'[t] = recurring[t]
                /\ \A e \in DOMAIN expenses' \ DOMAIN expenses :
                      expenses'[e].recurringExpenseId # t]_vars

\* C24 witness: a sweep has just created an expense next to an older one
\* while a budget exists and three templates were left out: a paused one
\* that is due, a due one with autoGenerate off and one not yet due.
C24_Witness ==
  /\ lastOp.op = "generateDueExpenses"
  /\ lastOp.generated >= 1
  /\ Cardinality(DOMAIN expenses) > lastOp.generated
  /\ budgets # <<>>
  /\ \E t \in DOMAIN recurring :
        ~recurring[t].isActive /\ recurring[t].autoGenerate
        /\ recurring[t].nextOccurrence <= today
  /\ \E t \in DOMAIN recurring :
        /\ recurring[t].isActive /\ ~recurring[t].autoGenerate
        /\ recurring[t].nextOccurrence <= today
        /\ \A e \in DOMAIN expenses : expenses[e].recurringExpenseId # t
  /\ \E t \in DOMAIN recurring :
        /\ recurring[t].isActive /\ recurring[t].autoGenerate
        /\ recurring[t].nextOccurrence > today
        /\ \A e \in DOMAIN expenses :
              e >= nextId.e - lastOp.generated =>
                 expenses[e].recurringExpenseId # t

\* C25: generateExpenseFromRecurring does not look at endDate: on an active
\* template of the caller whose endDate is set and earlier than today, or
\* earlier than its nextOccurrence, it answers 201, creates the expense dated
\* at nextOccurrence, advances the cursor and leaves isActive = true.  No
\* request of this handler ever turns isActive off.
C25_ManualGenerationIgnoresExpiry ==
  [][\A u \in Users, t \in TemplateIds :
       (Owns(u, t) /\ generateExpenseFromRecurring(u, t))
       => /\ recurring'[t].isActive = recurring[t].isActive
          /\ ( /\ recurring[t].isActive
               /\ recurring[t].endDate # Null
               /\ \/ recurring[t].endDate < today
                  \/ recurring[t].endDate < recurring[t].nextOccurrence )
             => /\ lastOp'.status = 201
                /\ \E e \in DOMAIN expenses' \ DOMAIN expenses :
                      /\ DOMAIN expenses' = DOMAIN expenses \cup {e}
                      /\ expenses'[e].recurringExpenseId = t
                      /\ expenses'[e].date = recurring[t].nextOccurrence
                /\ recurring'[t].lastGenerated = recurring[t].nextOccurrence
                /\ recurring'[t].nextOccurrence
                     > recurring[t].nextOccurrence]_vars

\* C25 witness: a generation has just succeeded on a template that is still
\* active although its end date lies before today and before the date of the
\* expense just created.
C25_Witness ==
  /\ lastOp.op = "generateExpenseFromRecurring"
  /\ lastOp.status = 201
  /\ lastOp.id \in DOMAIN recurring
  /\ recurring[lastOp.id].isActive
  /\ recurring[lastOp.id].endDate # Null
  /\ recurring[lastOp.id].endDate < today
  /\ recurring[lastOp.id].endDate < recurring[lastOp.id].lastGenerated
  /\ \E e \in DOMAIN expenses :
        /\ expenses[e].recurringExpenseId = lastOp.id
        /\ expenses[e].date = recurring[lastOp.id].lastGenerated

\* C26 (as claimed): with the sweep run day after day and no user edits,
\* every active template whose endDate is set eventually becomes inactive,
\* whatever its autoGenerate flag.
C26_ExpiryEventuallyApplied ==
  \A t \in TemplateIds :
     (t \in DOMAIN recurring /\ recurring[t].isActive
        /\ recurring[t].endDate # Null)
     ~> (t \in DOMAIN recurring /\ ~recurring[t].isActive)

\* C26 (amended): the same for the templates with autoGenerate = true,
\* wherever their nextOccurrence lies relative to endDate; a template with
\* autoGenerate = false is never selected by the sweep and stays active.
C26_ExpiryEventuallyAppliedToAutoGenerate ==
  /\ \A t \in TemplateIds :
        (t \in DOMAIN recurring /\ recurring[t].isActive
           /\ recurring[t].endDate # Null /\ recurring[t].autoGenerate)
        ~> (t \in DOMAIN recurring /\ ~recurring[t].isActive
              /\ recurring[t].endDate < today)
  /\ [][\A t \in DOMAIN recurring :
          (recurring[t].isActive /\ ~recurring[t].autoGenerate)
          => recurring'[t] = recurring[t]]_vars

\* C26 witness: a sweep has deactivated a template whose cursor had already
\* moved beyond its end date.
C26_Witness ==
  /\ lastOp.op = "generateDueExpenses"
  /\ lastOp.generated = 0
  /\ \E t \in DOMAIN recurring :
        /\ ~recurring[t].isActive
        /\ recurring[t].autoGenerate
        /\ recurring[t].endDate # Null
        /\ recurring[t].endDate < today
        /\ recurring[t].endDate < recurring[t].nextOccurrence
        /\ recurring[t].lastGenerated # Null

RECURSIVE MissedDates(_, _)
\* the occurrence dates after d that are not later than today
MissedDates(d, frequency) ==
  LET n == calculateNextOccurrence(d, frequency)
  IN IF n > today THEN {} ELSE {n} \cup MissedDates(n, frequency)

\* the dates of the expenses that refer to template t
DatesOf(t) ==
  {expenses[e].date : e \in {x \in DOMAIN expenses :
                               expenses[x].recurringExpenseId = t}}

\* C27: for an active autoGenerate template without endDate that is k >= 1
\* periods behind today, sweeps repeated on that day each create one expense,
\* dated at the cursor and later than every expense created before, until
\* the cursor is beyond today; by then the expenses are exactly the k missed
\* occurrence dates, one record each; and that state is reached.  From then
\* on a sweep creates no expense and changes no template.
C27_CatchUpConverges ==
  /\ [][(lastOp'.op = "generateDueExpenses" /\ generateDueExpenses) =>
          \A t \in DOMAIN recurring :
             IF recurring[t].nextOccurrence <= today
             THEN /\ DOMAIN expenses' = DOMAIN expenses \cup {nextId.e}
                  /\ expenses'[nextId.e].recurringExpenseId = t
                  /\ expenses'[nextId.e].date = recurring[t].nextOccurrence
                  /\ \A d \in DatesOf(t) : d < expenses'[nextId.e].date
                  /\ lastOp'.generated = 1
             ELSE /\ expenses' = expenses
                  /\ recurring' = recurring
                  /\ lastOp'.generated = 0]_vars
  /\ \A t \in TemplateIds :
        <>[]( /\ recurring[t].nextOccurrence > today
              /\ DatesOf(t) = MissedDates(recurring[t].startDate,
                                          recurring[t].frequency)
              /\ Cardinality(DOMAIN expenses) = Cardinality(DatesOf(t)) )

\* C27 witness: a template that was two periods behind has both missed
\* dates materialized, in order, its cursor is beyond today, and a further
\* sweep has just run and created nothing.
C27_Witness ==
  /\ lastOp.op = "generateDueExpenses"
  /\ lastOp.generated = 0
  /\ \E t \in DOMAIN recurring :
        /\ recurring[t].nextOccurrence > today
        /\ Cardinality(MissedDates(recurring[t].startDate,
                                   recurring[t].frequency)) = 2
        /\ DOMAIN expenses = {1, 2}
        /\ expenses[1].recurringExpenseId = t
        /\ expenses[2].recurringExpenseId = t
        /\ expenses[1].date < expenses[2].date
        /\ expenses[2].date <= today
        /\ recurring[t].lastGenerated = expenses[2].date

\* C28 (as claimed): no two expense records share the same template
\* back-reference and the same date.
C28_NoDuplicateMaterialization ==
  \A e1 \in DOMAIN expenses, e2 \in DOMAIN expenses :
     ( /\ e1 # e2
       /\ expenses[e1].recurringExpenseId # 0
       /\ expenses[e1].recurringExpenseId = expenses[e2].recurringExpenseId )
     => expenses[e1].date # expenses[e2].date

\* C29: every expense a sweep run at date today creates is dated today or
\* earlier, not later than the end date of the template it refers to when
\* that template has one, and carries that template's userId.
C29_SweepExpensesDueAndOwned ==
  [][(lastOp'.op = "generateDueExpenses" /\ generateDueExpenses) =>
       \A e \in DOMAIN expenses' \ DOMAIN expenses :
          LET t == expenses'[e].recurringExpenseId
          IN /\ t \in DOMAIN recurring
             /\ expenses'[e].date <= today
             /\ recurring[t].endDate # Null =>
                   expenses'[e].date <= recurring[t].endDate
             /\ expenses'[e].userId = recurring[t].userId]_vars

\* C29 witness: one sweep has just created two expenses, one for a template
\* of the second user and one for a template that has an end date.
C29_Witness ==
  /\ lastOp.op = "generateDueExpenses"
  /\ lastOp.generated = 2
  /\ \E e1 \in DOMAIN expenses, e2 \in DOMAIN expenses :
        /\ e1 >= nextId.e - 2
        /\ e2 >= nextId.e - 2
        /\ expenses[e1].userId = "u2"
        /\ recurring[expenses[e1].recurringExpenseId].userId = "u2"
        /\ expenses[e2].userId = "u1"
        /\ recurring[expenses[e2].recurringExpenseId].endDate # Null
        /\ expenses[e2].date
             <= recurring[expenses[e2].recurringExpenseId].endDate

\* C30 (as claimed): a read of a budget whose totalLimit is 0 returns
\* overallPercentage = 0, whatever totalSpent is.
C30_OverallPercentageZero ==
  (lastOp.op = "getBudgetProgress" /\ lastOp.resp.totalLimit = 0)
  => lastOp.resp.overallPercentage = 0

====
